---- MODULE Spec2Model ----
(***************************************************************************)
(* San Ramon Council Intelligence Platform.                                *)
(*                                                                         *)
(* Three components are modelled, each with its own specification:         *)
(*   SpecFeed        src/src/scraper.py        the IQM2 feed parser        *)
(*   SpecTranscript  src/src/youtube_logic.py  the transcript resolver     *)
(*   SpecEngine      src/src/engine.py         the summarization engine    *)
(*                                                                         *)
(* Text is modelled as a sequence of atoms (short pieces of text that the  *)
(* code's substring tests never split), so strip, lstrip, startswith, the  *)
(* "in" tests and the concatenations are computed as the code does them.   *)
(* An optional value (Python's None or a value) is a record                *)
(* [some, v]: None is [some |-> FALSE], and the empty string is            *)
(* [some |-> TRUE, v |-> <<>>], so the two stay distinguishable.           *)
(***************************************************************************)
EXTENDS Integers, Sequences, FiniteSets, TLC

VARIABLES
    \* ---- scraper.py ----
    doc,          \* the feed document served by the IQM2 endpoint
    start_date,   \* get_meetings_in_range argument
    end_date,     \* get_meetings_in_range argument
    pc,           \* position inside get_meetings_in_range / _fetch_rss
    attempt,      \* _fetch_rss_html: number of HTTP attempts made
    sleeps,       \* _fetch_rss_html: number of time.sleep(2) calls
    html,         \* _fetch_rss_html: the text returned (None when all failed)
    pos,          \* _fetch_rss: number of divs of soup.find_all("div") processed
    by_date,      \* _fetch_rss: dict iso -> record
    meetings,     \* _fetch_rss: its return value
    filtered,     \* get_meetings_in_range: its return value
    outcome,      \* how get_meetings_in_range ended: pending / returned / raised
    \* ---- youtube_logic.py ----
    tpc,          \* position inside get_transcript / _search_youtube
    queries_done, \* _search_youtube: number of queries issued
    responses,    \* what each query issued met: Some(ids of the page) or None (it raised)
    seen,         \* _search_youtube: set of video ids seen
    results,      \* _search_youtube: list of video ids, its return value
    candidates,   \* get_transcript: the list _search_youtube returned
    cand,         \* get_transcript: number of candidates attempted
    api,          \* get_transcript: whether YouTubeTranscriptApi() was constructed
    video_id,     \* get_transcript: the loop variable (0 before the loop)
    skipped,      \* the non-empty segment counts of the candidates passed over
                  \* (-1 for a candidate whose fetch raised)
    fetched,      \* the last value api.fetch returned
    transcript,   \* get_transcript's return value (None: not found)
    meeting_date, \* _format_date_for_search: its argument
    natural,      \* _format_date_for_search: its return value (None: not returned)
    \* ---- engine.py ----
    epc,          \* position of the caller of CouncilEngine.generate_summary
    backend,      \* self.backend
    meeting,      \* generate_summary argument: the meeting record
    segs,         \* generate_summary argument: the transcript (list of segments)
    prompt,       \* the prompt handed to the backend
    raised_msg,   \* str(e) of the exception the completion call raised (None: none)
    summary,      \* generate_summary's return value
    \* ---- app.py (run_analysis) and main.py (run_pipeline) ----
    apc,          \* position inside the running caller ("idle": none is running)
    caller,       \* which of run_analysis and run_pipeline is running
    runs,         \* number of calls started in the session
    creds,        \* the API key names that are set (environment or secrets)
    store_configured, \* whether SUPABASE_URL and SUPABASE_KEY give a client
    a_meeting,    \* the caller's meeting
    a_backend,    \* the caller's backend
    a_transcript, \* the caller's transcript (None: not fetched or not found)
    engine,       \* whether the caller holds a constructed CouncilEngine
    a_summary,    \* the caller's summary
    saved,        \* run_analysis: first component of save_to_supabase's result
    save_msg,     \* run_analysis: second component of save_to_supabase's result
    store_rows,   \* the rows of table council_reports, oldest first
    mem_archive,  \* st.session_state["_mem_archive"]
    current,      \* st.session_state current_summary / _meeting / _backend (None: unset)
    shown,        \* what the running call has shown the user
    a_result,     \* how the last call ended
    \* ---- app.py (the script) ----
    backend_choice, \* st.session_state["backend_choice"]
    pending,      \* st.session_state["_pending_reanalysis"] is set
    db_cache,     \* what st.cache_data holds for _cached_load_from_supabase (None: no entry)
    archived_all, \* what load_archive returned to the last script run
    click         \* the button press the script has still to handle when the
                  \* run_analysis called by its pending block returns

feedVars == <<doc, start_date, end_date, pc, attempt, sleeps, html, pos,
              by_date, meetings, filtered, outcome>>

ytVars == <<tpc, queries_done, responses, seen, results, candidates, api, cand, video_id,
            skipped, fetched, transcript>>

dateVars == <<meeting_date, natural>>

engineVars == <<epc, backend, meeting, segs, prompt, raised_msg, summary>>

appVars == <<apc, caller, runs, creds, store_configured, a_meeting, a_backend,
             a_transcript, engine, a_summary, saved, save_msg, store_rows,
             mem_archive, current, shown, a_result,
             backend_choice, pending, db_cache, archived_all, click>>

uiVars == <<backend_choice, pending, db_cache, archived_all, click>>

----------------------------------------------------------------------------
(* Generic helpers                                                         *)

None == [some |-> FALSE, v |-> <<>>]
Some(x) == [some |-> TRUE, v |-> x]

\* Python truthiness of an optional string: None and "" are falsy.
Truthy(o) == o.some /\ o.v # <<>>

Range(s) == {s[i] : i \in 1..Len(s)}

RECURSIVE SeqsUpTo(_, _)
SeqsUpTo(S, n) ==
    IF n = 0 THEN {<<>>}
    ELSE LET shorter == SeqsUpTo(S, n - 1)
         IN  shorter \cup {Append(s, x) : s \in {t \in shorter : Len(t) = n - 1}, x \in S}

----------------------------------------------------------------------------
(* scraper.py: text helpers                                                *)

WS == " "

MAX_RETRIES == 2

IQM2_BASE == <<"https://sanramonca.iqm2.com", "/Citizens">>

\* The atoms a string starting with "http" can start with.
HttpAtoms == {"https://sanramonca.iqm2.com", "http://cdn.example.org"}

\* The patterns of the code's substring tests that occur in an atom.
PatternsIn(atom) ==
    CASE atom = "Detail_Meeting.aspx?ID=1"    -> {"Detail_Meeting"}
      [] atom = "Detail_Meeting.aspx?ID=2"    -> {"Detail_Meeting"}
      [] atom = "FileOpen.aspx?Type=14&ID=11" -> {"FileOpen", "Type=14"}
      [] atom = "FileOpen.aspx?Type=14&ID=12" -> {"FileOpen", "Type=14"}
      [] atom = "FileOpen.aspx?Type=1&ID=13"  -> {"FileOpen"}
      [] atom = "FileOpen.aspx?Type=15&ID=14" -> {"FileOpen"}
      [] atom = "FileOpen.aspx?Type=15&ID=15" -> {"FileOpen"}
      [] atom = "Media.aspx?Type=16&ID=16"    -> {"Type=16"}
      [] OTHER                                -> {}

\* "pat in s" for a string s
Contains(pat, s) == \E i \in 1..Len(s) : pat \in PatternsIn(s[i])

RECURSIVE lstrip(_, _)
lstrip(s, ch) == IF s # <<>> /\ Head(s) = ch THEN lstrip(Tail(s), ch) ELSE s

RECURSIVE rstrip(_, _)
rstrip(s, ch) ==
    IF s # <<>> /\ s[Len(s)] = ch THEN rstrip(SubSeq(s, 1, Len(s) - 1), ch) ELSE s

strip(s) == rstrip(lstrip(s, WS), WS)

startswith_http(s) == s # <<>> /\ Head(s) \in HttpAtoms

\* A faulty variant: a relative href is returned as it is.
_abs_KeepsRelative(href) ==
    IF ~Truthy(href) \/ strip(href.v) = <<>> THEN None ELSE Some(strip(href.v))

\* _abs(href): href is an optional string; the result is None or a string.
_abs(href) ==
    IF ~Truthy(href) \/ strip(href.v) = <<>> THEN None
    ELSE LET h == strip(href.v)
         IN  IF startswith_http(h) THEN Some(h)
             ELSE Some(IQM2_BASE \o <<"/">> \o lstrip(h, "/"))

----------------------------------------------------------------------------
(* scraper.py: dates                                                       *)

\* A heading is a sequence of tokens.  A plain word has d = y = 0; a date
\* token is written "<w> <d>, <y>" and, when hr # 0, " <hr>:00 PM" after it.
Word(w) == [w |-> w, d |-> 0, y |-> 0, hr |-> 0]
DateTok(mon, d, y, hr) == [w |-> mon, d |-> d, y |-> y, hr |-> hr]

\* %b and %B of datetime.strptime: the month number, 0 when the text is neither
\* an abbreviated nor a full month name.
MonthNum(w) ==
    CASE w \in {"Jan", "January"}   -> 1
      [] w \in {"Feb", "February"}  -> 2
      [] w \in {"Mar", "March"}     -> 3
      [] w \in {"Apr", "April"}     -> 4
      [] w \in {"May"}              -> 5
      [] w \in {"Jun", "June"}      -> 6
      [] w \in {"Jul", "July"}      -> 7
      [] w \in {"Aug", "August"}    -> 8
      [] w \in {"Sep", "September"} -> 9
      [] w \in {"Oct", "October"}   -> 10
      [] w \in {"Nov", "November"}  -> 11
      [] w \in {"Dec", "December"}  -> 12
      [] OTHER                      -> 0

\* The words the regex's month part (?:Jan|...|Dec)[a-z]* matches: every month
\* name, and also an abbreviation followed by other letters.
RegexMonthWords == {"Jan", "January", "Feb", "February", "Mar", "March",
                    "Apr", "April", "May", "Jun", "June", "Jul", "July",
                    "Aug", "August", "Sep", "September", "Oct", "October",
                    "Nov", "November", "Dec", "December",
                    "Sept", "Janu", "Febr", "Decem"}

IsLeap(y) == (y % 4 = 0 /\ y % 100 # 0) \/ y % 400 = 0

DaysIn(m, y) ==
    IF m = 2 THEN (IF IsLeap(y) THEN 29 ELSE 28)
    ELSE IF m \in {4, 6, 9, 11} THEN 30 ELSE 31

ValidDate(y, m, d) == y \in 1000..9999 /\ m \in 1..12 /\ d \in 1..DaysIn(m, y)

\* The regex of _parse_date on one token: month word, 1-2 digit day, 4 digit year.
RegexMatches(tok) ==
    tok.w \in RegexMonthWords /\ tok.d \in 0..99 /\ tok.y \in 1000..9999

\* The four strptime formats on the matched text.
Strptime(tok) ==
    IF MonthNum(tok.w) # 0
       /\ ValidDate(tok.y, MonthNum(tok.w), tok.d)
       /\ (tok.hr = 0 \/ tok.hr \in 1..12)
    THEN [some |-> TRUE, y |-> tok.y, m |-> MonthNum(tok.w), d |-> tok.d]
    ELSE [some |-> FALSE, y |-> 0, m |-> 0, d |-> 0]

RECURSIVE FirstMatch(_)
\* re.search: the first token of the heading the regex matches (<<>> when none)
FirstMatch(heading) ==
    IF heading = <<>> THEN <<>>
    ELSE IF RegexMatches(Head(heading)) THEN <<Head(heading)>>
    ELSE FirstMatch(Tail(heading))

_parse_date(heading) ==
    LET m == FirstMatch(heading)
    IN  IF m = <<>> THEN [some |-> FALSE, y |-> 0, m |-> 0, d |-> 0]
        ELSE Strptime(m[1])

\* strftime("%Y-%m-%d"): the ISO text, kept as its three fields; ISO texts of
\* four-digit years order as the triples do.
IsoOf(dt) == <<dt.y, dt.m, dt.d>>

\* strftime("%m/%d/%Y")
DisplayOf(dt) == <<dt.m, dt.d, dt.y>>

IsoLess(a, b) ==
    \/ a[1] < b[1]
    \/ a[1] = b[1] /\ a[2] < b[2]
    \/ a[1] = b[1] /\ a[2] = b[2] /\ a[3] < b[3]

IsoLeq(a, b) == a = b \/ IsoLess(a, b)

\* "pat in heading" for the heading's words
HeadingHas(word, heading) == \E i \in 1..Len(heading) : heading[i].w = word

----------------------------------------------------------------------------
(* scraper.py: the feed document and the loop body of _fetch_rss           *)

\* A link <a href=...>text</a>: href is the raw attribute text.
Link(text, href) == [text |-> text, href |-> href]

\* a.get_text(strip=True).lower() contains "minute"
TextHasMinute(text) == text \in {"Minutes", "MINUTES", "Draft minutes"}

\* A feed entry: one <div> with an optional <h2> and its <a href> links.
Entry(has_h2, heading, links) == [has_h2 |-> has_h2, heading |-> heading, links |-> links]

RECURSIVE AllLinks(_)
AllLinks(entries) ==
    IF entries = <<>> THEN <<>> ELSE Head(entries).links \o AllLinks(Tail(entries))

RECURSIVE FirstH2(_)
\* div.find("h2") on an enclosing div: the first <h2> below it, in document order
FirstH2(entries) ==
    IF entries = <<>> THEN Entry(FALSE, <<>>, <<>>)
    ELSE IF Head(entries).has_h2 THEN Head(entries)
    ELSE FirstH2(Tail(entries))

\* soup.find_all("div"): every <div> of the document in document order.  When the
\* entries sit inside an enclosing <div>, that div comes first; its find("h2") is
\* the first <h2> below it and its find_all("a") are all the links below it.
Divs(d) ==
    IF d.wrapped
    THEN <<Entry(FirstH2(d.entries).has_h2, FirstH2(d.entries).heading,
                 AllLinks(d.entries))>> \o d.entries
    ELSE d.entries

RECURSIVE DivLinks(_)
\* div_links: (text, _abs(href)) of the links whose _abs(href) is truthy
DivLinks(links) ==
    IF links = <<>> THEN <<>>
    ELSE LET a == Head(links)
             u == _abs(Some(a.href))
         IN  (IF Truthy(u) THEN <<[text |-> a.text, href |-> u.v]>> ELSE <<>>)
             \o DivLinks(Tail(links))

NewRecord(dt) ==
    [name        |-> "City Council",
     date        |-> DisplayOf(dt),
     iso         |-> IsoOf(dt),
     detail_url  |-> None,
     agenda_url  |-> None,
     minutes_url |-> None,
     has_webcast |-> FALSE,
     webcast_url |-> None]

RECURSIVE AgendaLoop(_, _)
\* for _, href in div_links: (lines 135-139)
AgendaLoop(entry, links) ==
    IF links = <<>> THEN entry
    ELSE LET href == Head(links).href
             e1 == IF Contains("Detail_Meeting", href) /\ ~Truthy(entry.detail_url)
                   THEN [entry EXCEPT !.detail_url = Some(href)] ELSE entry
             e2 == IF Contains("FileOpen", href) /\ Contains("Type=14", href)
                      /\ ~Truthy(e1.agenda_url)
                   THEN [e1 EXCEPT !.agenda_url = Some(href)] ELSE e1
         IN  AgendaLoop(e2, Tail(links))

RECURSIVE FirstFileOpen(_)
\* the href of the first link with "FileOpen" in it (None when there is none)
FirstFileOpen(links) ==
    IF links = <<>> THEN None
    ELSE IF Contains("FileOpen", Head(links).href) THEN Some(Head(links).href)
    ELSE FirstFileOpen(Tail(links))

RECURSIVE FirstMinuteLike(_)
FirstMinuteLike(links) ==
    IF links = <<>> THEN None
    ELSE IF TextHasMinute(Head(links).text) \/ Contains("Type=16", Head(links).href)
         THEN Some(Head(links).href)
    ELSE FirstMinuteLike(Tail(links))

RECURSIVE FirstDetail(_)
FirstDetail(links) ==
    IF links = <<>> THEN None
    ELSE IF Contains("Detail_Meeting", Head(links).href) THEN Some(Head(links).href)
    ELSE FirstDetail(Tail(links))

\* if "- Agenda -" in heading: (lines 134-145)
AgendaBranch(entry, links) ==
    LET e == AgendaLoop(entry, links)
    IN  IF ~Truthy(e.agenda_url) /\ FirstFileOpen(links).some
        THEN [e EXCEPT !.agenda_url = FirstFileOpen(links)]
        ELSE e

\* A faulty variant: the Minutes branch writes the agenda_url field.
MinutesBranch_WritesAgenda(entry, links) ==
    IF FirstFileOpen(links).some
    THEN [entry EXCEPT !.agenda_url = FirstFileOpen(links)]
    ELSE entry

\* elif "- Minutes -" in heading: (lines 147-157)
MinutesBranch(entry, links) ==
    LET e == IF FirstFileOpen(links).some
             THEN [entry EXCEPT !.minutes_url = FirstFileOpen(links)]
             ELSE entry
    IN  IF ~Truthy(e.minutes_url) /\ FirstMinuteLike(links).some
        THEN [e EXCEPT !.minutes_url = FirstMinuteLike(links)]
        ELSE e

\* A faulty variant: webcast_url is written whether or not a link was found.
WebcastBranch_AlwaysWrites(entry, links) ==
    [entry EXCEPT !.has_webcast = TRUE, !.webcast_url = FirstDetail(links)]

\* A faulty variant: has_webcast is set only when the webcast link is found.
WebcastBranch_NeedsLink(entry, links) ==
    IF FirstDetail(links).some
    THEN [entry EXCEPT !.has_webcast = TRUE, !.webcast_url = FirstDetail(links)]
    ELSE entry

\* elif "- Webcast -" in heading: (lines 159-165)
WebcastBranch(entry, links) ==
    LET e == [entry EXCEPT !.has_webcast = TRUE]
    IN  IF FirstDetail(links).some
        THEN [e EXCEPT !.webcast_url = FirstDetail(links)]
        ELSE e

\* A faulty variant: a cancelled session is not passed over.
Accepted_KeepsCancelled(div) ==
    /\ div.has_h2
    /\ HeadingHas("City Council", div.heading)
    /\ _parse_date(div.heading).some

\* A faulty variant: a heading without a date is not passed over.
Accepted_KeepsUndated(div) ==
    /\ div.has_h2
    /\ HeadingHas("City Council", div.heading)
    /\ ~HeadingHas("Cancelled", div.heading)

\* Whether the loop body reaches line 110 for this div (no "continue" before).
Accepted(div) ==
    /\ div.has_h2
    /\ HeadingHas("City Council", div.heading)
    /\ ~HeadingHas("Cancelled", div.heading)
    /\ _parse_date(div.heading).some

\* One iteration of "for div in soup.find_all('div')" (lines 96-167) on the dict bd.
ProcessDiv(bd, div) ==
    IF ~Accepted(div) THEN bd
    ELSE LET dt    == _parse_date(div.heading)
             iso   == IsoOf(dt)
             links == DivLinks(div.links)
             entry == IF iso \in DOMAIN bd THEN bd[iso] ELSE NewRecord(dt)
             upd   == IF HeadingHas("- Agenda -", div.heading)
                          THEN AgendaBranch(entry, links)
                      ELSE IF HeadingHas("- Minutes -", div.heading)
                          THEN MinutesBranch(entry, links)
                      ELSE IF HeadingHas("- Webcast -", div.heading)
                          THEN WebcastBranch(entry, links)
                      ELSE entry
         IN  [k \in (DOMAIN bd) \cup {iso} |-> IF k = iso THEN upd ELSE bd[k]]

RECURSIVE SortDesc(_)
\* sorted(records, key=iso, reverse=True): the records of a set, newest first
\* (the iso keys of a dict's values are distinct)
SortDesc(S) ==
    IF S = {} THEN <<>>
    ELSE LET top == CHOOSE r \in S : \A q \in S : IsoLeq(q.iso, r.iso)
         IN  <<top>> \o SortDesc(S \ {top})

Values(bd) == {bd[k] : k \in DOMAIN bd}

EmptyDict == [k \in {} |-> 0]

----------------------------------------------------------------------------
(* scraper.py: get_meetings_in_range                                       *)

\* A date argument as text: its shape and the numbers written in it.
DateStr(shape, y, m, d) == [shape |-> shape, y |-> y, m |-> m, d |-> d]

\* datetime.strptime(s, "%Y-%m-%d"): ValueError unless s is written year-month-day
\* and names a day of the calendar.
StrptimeIso(s) ==
    IF s.shape = "Y-M-D" /\ ValidDate(s.y, s.m, s.d)
    THEN [some |-> TRUE, y |-> s.y, m |-> s.m, d |-> s.d]
    ELSE [some |-> FALSE, y |-> 0, m |-> 0, d |-> 0]

\* A faulty variant: the end of the range is excluded.
FilterRange_ExclusiveEnd(ms, start_dt, end_dt) ==
    SortDesc({ms[i] : i \in {j \in 1..Len(ms) :
                                /\ IsoLeq(IsoOf(start_dt), ms[j].iso)
                                /\ IsoLess(ms[j].iso, IsoOf(end_dt))}})

\* filtered = [m for m in _fetch_rss() if start_dt <= strptime(m["iso"]) <= end_dt]
\* filtered.sort(key=iso, reverse=True)            (lines 189-193)
FilterRange(ms, start_dt, end_dt) ==
    SortDesc({ms[i] : i \in {j \in 1..Len(ms) :
                                /\ IsoLeq(IsoOf(start_dt), ms[j].iso)
                                /\ IsoLeq(ms[j].iso, IsoOf(end_dt))}})

\* ---- the inputs ----

MaxEntries == 3

Detail1 == <<"/", "Detail_Meeting.aspx?ID=1">>
Detail2 == <<"Detail_Meeting.aspx?ID=2">>
Agenda11 == <<"https://sanramonca.iqm2.com", "/Citizens", "/", "FileOpen.aspx?Type=14&ID=11">>
Agenda12 == <<"FileOpen.aspx?Type=14&ID=12">>
Packet13 == <<WS, "FileOpen.aspx?Type=1&ID=13", WS>>
Minutes14 == <<"/", "/", "FileOpen.aspx?Type=15&ID=14">>
Minutes15 == <<"http://cdn.example.org", "/", "FileOpen.aspx?Type=15&ID=15">>
Media16 == <<"Media.aspx?Type=16&ID=16">>

Council == Word("City Council")
Jan14 == DateTok("Jan", 14, 2025, 7)
Jan14Long == DateTok("January", 14, 2025, 0)
Feb11 == DateTok("Feb", 11, 2025, 6)
Dec10 == DateTok("December", 10, 2024, 0)

eAgenda    == Entry(TRUE, <<Council, Word("- Agenda -"), Jan14>>,
                    <<Link("Details", Detail1), Link("Agenda", Agenda11)>>)
eAgendaB   == Entry(TRUE, <<Council, Word("- Agenda -"), Jan14Long>>,
                    <<Link("Packet", Packet13), Link("Agenda", Agenda12)>>)
ePacket    == Entry(TRUE, <<Council, Word("- Agenda -"), Jan14>>,
                    <<Link("Packet", Packet13)>>)
eAgendaNoFile == Entry(TRUE, <<Council, Word("- Agenda -"), Jan14>>,
                    <<Link("Details", Detail1), Link("Agenda", <<>>)>>)
eMinutes   == Entry(TRUE, <<Council, Word("- Minutes -"), Jan14Long>>,
                    <<Link("Minutes", Minutes14)>>)
eMinutesB  == Entry(TRUE, <<Council, Word("- Minutes -"), Jan14>>,
                    <<Link("Broken", <<WS, WS>>), Link("Draft", Minutes15)>>)
eMinutesFallback == Entry(TRUE, <<Council, Word("- Minutes -"), Jan14>>,
                    <<Link("Video", Detail2), Link("Minutes", Media16)>>)
eWebcast   == Entry(TRUE, <<Council, Word("- Webcast -"), Jan14>>,
                    <<Link("Video", Detail2)>>)
eWebcastNoUrl == Entry(TRUE, <<Council, Word("- Webcast -"), Jan14>>,
                    <<Link("Video", <<>>), Link("Video", <<WS>>)>>)
eFebAgenda == Entry(TRUE, <<Council, Word("- Agenda -"), Feb11>>,
                    <<Link("Agenda", Agenda12)>>)
eDecMinutes == Entry(TRUE, <<Council, Word("- Minutes -"), Dec10>>,
                    <<Link("Minutes", Minutes15)>>)
eCancelled == Entry(TRUE, <<Council, Word("- Agenda -"), Word("Cancelled"), Jan14>>,
                    <<Link("Agenda", Agenda12)>>)
ePlanning  == Entry(TRUE, <<Word("Planning Commission"), Word("- Minutes -"), Jan14>>,
                    <<Link("Minutes", Minutes15)>>)
eBadDate   == Entry(TRUE, <<Council, Word("- Agenda -"), DateTok("Sept", 9, 2025, 0)>>,
                    <<Link("Agenda", Agenda12)>>)
eNoSubtype == Entry(TRUE, <<Council, Word("Regular Meeting"), Feb11>>,
                    <<Link("Agenda", Agenda12)>>)
eNoH2      == Entry(FALSE, <<>>, <<Link("Video", Detail2)>>)

\* The entries of the documents of SpecFeed.
FeedEntries == {eAgenda, eAgendaB, ePacket, eMinutes, eMinutesB, eMinutesFallback,
                eWebcast, eWebcastNoUrl, eFebAgenda, eCancelled, ePlanning,
                eBadDate, eNoSubtype, eNoH2}

\* The entries of the documents of SpecRange.
RangeEntries == {eAgenda, eAgendaNoFile, eMinutes, eWebcast, eFebAgenda,
                 eDecMinutes, eCancelled}

Docs(entries, wrappings) == {[wrapped |-> w, entries |-> es] :
                              w \in wrappings, es \in SeqsUpTo(entries, MaxEntries)}

\* get_meetings_in_range's default arguments (lines 175-176)
DefaultStart == DateStr("Y-M-D", 2025, 1, 1)
DefaultEnd   == DateStr("Y-M-D", 2026, 12, 31)

RangeArgs == {<<DateStr("Y-M-D", 2025, 1, 1),  DateStr("Y-M-D", 2025, 1, 31)>>,
              <<DateStr("Y-M-D", 2025, 1, 14), DateStr("Y-M-D", 2025, 1, 14)>>,
              <<DateStr("Y-M-D", 2025, 1, 15), DateStr("Y-M-D", 2025, 2, 11)>>,
              <<DateStr("Y-M-D", 2024, 12, 10), DateStr("Y-M-D", 2025, 1, 14)>>,
              <<DateStr("Y-M-D", 2025, 1, 31), DateStr("Y-M-D", 2025, 1, 1)>>,
              <<DateStr("Y-M-D", 2025, 2, 30), DateStr("Y-M-D", 2025, 3, 1)>>,
              <<DateStr("Y-M-D", 2025, 1, 1),  DateStr("M/D/Y", 2025, 1, 31)>>}

\* ---- the state machine ----

InitFeedVars(d, s, e) ==
    /\ doc = d
    /\ start_date = s
    /\ end_date = e
    /\ pc = "call"
    /\ attempt = 0
    /\ sleeps = 0
    /\ html = None
    /\ pos = 0
    /\ by_date = EmptyDict
    /\ meetings = <<>>
    /\ filtered = <<>>
    /\ outcome = "pending"

\* get_meetings_in_range, lines 182-187: parse the two bounds.
ParseBounds ==
    /\ pc = "call"
    /\ IF StrptimeIso(start_date).some /\ StrptimeIso(end_date).some
       THEN /\ pc' = "fetch"
            /\ UNCHANGED <<filtered, outcome>>
       ELSE /\ pc' = "done"
            /\ filtered' = <<>>
            /\ outcome' = "returned"
    /\ UNCHANGED <<doc, start_date, end_date, attempt, sleeps, html, pos,
                   by_date, meetings>>
    /\ UNCHANGED <<ytVars, dateVars, engineVars, appVars>>

\* _fetch_rss_html, lines 69-74: one HTTP attempt that succeeds.
FetchOk ==
    /\ pc = "fetch"
    /\ attempt < MAX_RETRIES
    /\ attempt' = attempt + 1
    /\ html' = Some(doc)
    /\ pc' = "parse"
    /\ UNCHANGED <<doc, start_date, end_date, sleeps, pos, by_date, meetings,
                   filtered, outcome>>
    /\ UNCHANGED <<ytVars, dateVars, engineVars, appVars>>

\* A faulty variant: the backoff is slept after the last attempt too.
FetchFail_SleepsAfterLast ==
    /\ pc = "fetch"
    /\ attempt < MAX_RETRIES
    /\ attempt' = attempt + 1
    /\ sleeps' = sleeps + 1
    /\ IF attempt + 1 < MAX_RETRIES
       THEN UNCHANGED <<pc, meetings, filtered, outcome>>
       ELSE /\ meetings' = <<>>
            /\ filtered' = FilterRange(<<>>, StrptimeIso(start_date), StrptimeIso(end_date))
            /\ outcome' = "returned"
            /\ pc' = "done"
    /\ UNCHANGED <<doc, start_date, end_date, html, pos, by_date>>
    /\ UNCHANGED <<ytVars, dateVars, engineVars, appVars>>

\* _fetch_rss_html, lines 75-81: one HTTP attempt that raises.  After the last
\* one _fetch_rss_html returns None, _fetch_rss returns [] (line 91) and
\* get_meetings_in_range filters and returns it (lines 189-195).
FetchFail ==
    /\ pc = "fetch"
    /\ attempt < MAX_RETRIES
    /\ attempt' = attempt + 1
    /\ IF attempt + 1 < MAX_RETRIES
       THEN /\ sleeps' = sleeps + 1
            /\ UNCHANGED <<pc, meetings, filtered, outcome>>
       ELSE /\ meetings' = <<>>
            /\ filtered' = FilterRange(<<>>, StrptimeIso(start_date), StrptimeIso(end_date))
            /\ outcome' = "returned"
            /\ pc' = "done"
            /\ UNCHANGED sleeps
    /\ UNCHANGED <<doc, start_date, end_date, html, pos, by_date>>
    /\ UNCHANGED <<ytVars, dateVars, engineVars, appVars>>

\* _fetch_rss, lines 96-167: one iteration of the loop over the divs.
ProcessDivStep ==
    /\ pc = "parse"
    /\ pos < Len(Divs(html.v))
    /\ by_date' = ProcessDiv(by_date, Divs(html.v)[pos + 1])
    /\ pos' = pos + 1
    /\ UNCHANGED <<doc, start_date, end_date, pc, attempt, sleeps, html,
                   meetings, filtered, outcome>>
    /\ UNCHANGED <<ytVars, dateVars, engineVars, appVars>>

\* _fetch_rss, lines 169-171, and get_meetings_in_range, lines 189-195.
FinishParse ==
    /\ pc = "parse"
    /\ pos = Len(Divs(html.v))
    /\ meetings' = SortDesc(Values(by_date))
    /\ filtered' = FilterRange(SortDesc(Values(by_date)),
                               StrptimeIso(start_date), StrptimeIso(end_date))
    /\ outcome' = "returned"
    /\ pc' = "done"
    /\ UNCHANGED <<doc, start_date, end_date, attempt, sleeps, html, pos, by_date>>
    /\ UNCHANGED <<ytVars, dateVars, engineVars, appVars>>

NextFeed == ParseBounds \/ FetchOk \/ FetchFail \/ ProcessDivStep \/ FinishParse

----------------------------------------------------------------------------
(* youtube_logic.py                                                        *)

MAX_CANDIDATES == 8
MIN_SEGMENTS == 20
NUM_QUERIES == 3

\* One caption entry e of a fetched transcript: e.text is None or a string.
Caption(text, i) == [text |-> text, start |-> i, duration |-> 2]

\* "e.text and e.text.strip()" (line 113)
NonEmptyText(text) == Truthy(text) /\ strip(text.v) # <<>>

\* {"text": e.text, "start": e.start, "duration": e.duration}
Segment(e) == [text |-> e.text.v, start |-> e.start, duration |-> e.duration]

\* A faulty variant: the "if e.text and e.text.strip()" filter is left out.
KeepNonEmpty_NoFilter(fs) == [i \in 1..Len(fs) |-> Segment(fs[i])]

\* the list comprehension of lines 110-114
KeepNonEmpty(fs) ==
    LET kept == SelectSeq(fs, LAMBDA e : NonEmptyText(e.text))
    IN  [i \in 1..Len(kept) |-> Segment(kept[i])]

\* ---- the inputs ----

BlankText(i) == IF i % 3 = 0 THEN None ELSE IF i % 3 = 1 THEN Some(<<>>) ELSE Some(<<WS, WS>>)
GoodText(i) == IF i % 2 = 0 THEN Some(<<"motion", WS, "carried">>) ELSE Some(<<WS, "aye">>)

\* A fetched transcript with `good` spoken captions and `blank` captions whose
\* text is None, empty or white space, the two kinds alternating at the start.
Fetched(good, blank) ==
    LET both == IF good < blank THEN good ELSE blank
    IN  [i \in 1..(good + blank) |->
            IF (i <= 2 * both /\ i % 2 = 1) \/ (i > 2 * both /\ blank > good)
            THEN Caption(BlankText(i), i)
            ELSE Caption(GoodText(i), i)]

\* What api.fetch can return for a candidate.
FetchedPool == {Fetched(0, 0), Fetched(0, 25), Fetched(5, 20), Fetched(15, 0),
                Fetched(19, 0), Fetched(19, 3), Fetched(20, 2), Fetched(21, 0),
                Fetched(42, 0)}

\* What one search request can return: the video ids of the page in the order
\* re.findall gives them (an id is written more than once on a page).
SearchPages == {<<>>, <<1, 2, 1, 3>>, <<3, 4, 4, 1>>, <<4, 5, 4, 6, 7, 8, 9>>,
                <<11, 12, 13, 14, 15, 16, 17, 18, 19>>}

\* ---- _format_date_for_search ----

\* A date text is three tokens in the order they are written: digit strings n1,
\* n2, n3 for the shapes "N/N/N" and "N-N-N"; a word w, the day n1 and the year
\* n2 for "W N, N" and "W N N"; ws tells that white space surrounds the text.
DateText(shape, w, n1, n2, n3, ws) ==
    [shape |-> shape, w |-> w, n1 |-> n1, n2 |-> n2, n3 |-> n3, ws |-> ws]

RECURSIVE Val(_)
\* The number a digit string writes.
Val(ds) == IF ds = <<>> THEN 0 ELSE 10 * Val(SubSeq(ds, 1, Len(ds) - 1)) + ds[Len(ds)]

\* %d and %m of strftime: two digits; %Y: four digits.
TwoDigits(n) == <<n \div 10, n % 10>>
FourDigits(n) == <<n \div 1000, (n \div 100) % 10, (n \div 10) % 10, n % 10>>

\* %B of strftime
FullMonthName(m) ==
    CASE m = 1 -> "January" [] m = 2 -> "February" [] m = 3 -> "March"
      [] m = 4 -> "April"   [] m = 5 -> "May"      [] m = 6 -> "June"
      [] m = 7 -> "July"    [] m = 8 -> "August"   [] m = 9 -> "September"
      [] m = 10 -> "October" [] m = 11 -> "November" [] OTHER -> "December"

\* %B of strptime reads full month names, %b abbreviated ones.
IsFullName(w) == MonthNum(w) # 0 /\ w = FullMonthName(MonthNum(w))
IsAbbreviation(w) ==
    MonthNum(w) # 0 /\ w \in {"Jan", "Feb", "Mar", "Apr", "May", "Jun", "Jul", "Aug",
                              "Sep", "Oct", "Nov", "Dec"}

\* %m and %d of strptime read one or two digits, %Y exactly four.
ReadsShort(ds) == Len(ds) \in 1..2
ReadsYear(ds) == Len(ds) = 4

\* datetime.strptime(text, fmt) with one of the five formats of line 33: the
\* date read, some = FALSE for ValueError.
StrptimeFormat(t, fmt) ==
    LET no == [some |-> FALSE, y |-> 0, m |-> 0, d |-> 0]
        Date(y, m, d) == IF ValidDate(y, m, d)
                         THEN [some |-> TRUE, y |-> y, m |-> m, d |-> d] ELSE no
    IN  CASE fmt = "%m/%d/%Y" ->
               IF t.shape = "N/N/N" /\ ReadsShort(t.n1) /\ ReadsShort(t.n2) /\ ReadsYear(t.n3)
               THEN Date(Val(t.n3), Val(t.n1), Val(t.n2)) ELSE no
          [] fmt = "%Y-%m-%d" ->
               IF t.shape = "N-N-N" /\ ReadsYear(t.n1) /\ ReadsShort(t.n2) /\ ReadsShort(t.n3)
               THEN Date(Val(t.n1), Val(t.n2), Val(t.n3)) ELSE no
          [] fmt = "%m-%d-%Y" ->
               IF t.shape = "N-N-N" /\ ReadsShort(t.n1) /\ ReadsShort(t.n2) /\ ReadsYear(t.n3)
               THEN Date(Val(t.n3), Val(t.n1), Val(t.n2)) ELSE no
          [] fmt = "%B %d, %Y" ->
               IF t.shape = "W N, N" /\ IsFullName(t.w) /\ ReadsShort(t.n1) /\ ReadsYear(t.n2)
               THEN Date(Val(t.n2), MonthNum(t.w), Val(t.n1)) ELSE no
          [] OTHER ->
               IF t.shape = "W N, N" /\ IsAbbreviation(t.w) /\ ReadsShort(t.n1)
                  /\ ReadsYear(t.n2)
               THEN Date(Val(t.n2), MonthNum(t.w), Val(t.n1)) ELSE no

\* strftime("%B %d %Y")
NaturalOf(dt) ==
    DateText("W N N", FullMonthName(dt.m), TwoDigits(dt.d), FourDigits(dt.y), <<>>, FALSE)

SearchDateFormats == <<"%m/%d/%Y", "%Y-%m-%d", "%m-%d-%Y", "%B %d, %Y", "%b %d, %Y">>

\* A faulty variant: a dash-separated date that ends in the year is read day first.
_format_date_for_search_DayFirst(md) ==
    LET stripped == [md EXCEPT !.ws = FALSE]
        RECURSIVE Try(_)
        Try(i) ==
            IF i > Len(SearchDateFormats) THEN md
            ELSE LET dt == StrptimeFormat(stripped, SearchDateFormats[i])
                 IN  IF dt.some
                     THEN IF i = 3 /\ ValidDate(dt.y, dt.d, dt.m)
                          THEN NaturalOf([dt EXCEPT !.m = dt.d, !.d = dt.m])
                          ELSE NaturalOf(dt)
                     ELSE Try(i + 1)
    IN  Try(1)

\* _format_date_for_search (lines 27-39): the first format that reads the
\* stripped text decides; when none does the argument is returned as it is.
_format_date_for_search(md) ==
    LET stripped == [md EXCEPT !.ws = FALSE]
        RECURSIVE Try(_)
        Try(i) ==
            IF i > Len(SearchDateFormats) THEN md
            ELSE LET dt == StrptimeFormat(stripped, SearchDateFormats[i])
                 IN  IF dt.some THEN NaturalOf(dt) ELSE Try(i + 1)
    IN  Try(1)

\* The arguments _format_date_for_search is applied to.
DayTexts == {<<5>>, <<0, 5>>, <<1, 0>>, <<3, 0>>}
MonthTexts == {<<2>>, <<0, 2>>, <<1, 0>>, <<1, 3>>}
YearTexts == {<<2, 0, 2, 5>>, <<2, 0, 2, 6>>, <<2, 6>>}
MonthWords == {"February", "Feb", "Febr", "October", "Oct"}

SearchDates ==
    {DateText(sh, "", m, d, y, ws) :
        sh \in {"N/N/N", "N-N-N"}, m \in MonthTexts, d \in DayTexts, y \in YearTexts,
        ws \in BOOLEAN}
    \cup {DateText("N-N-N", "", y, m, d, ws) :
        y \in YearTexts, m \in MonthTexts, d \in DayTexts, ws \in BOOLEAN}
    \cup {DateText(sh, w, d, y, <<>>, ws) :
        sh \in {"W N, N", "W N N"}, w \in MonthWords, d \in DayTexts, y \in YearTexts,
        ws \in BOOLEAN}

InitDateVars(md) ==
    /\ meeting_date = md
    /\ natural = None

\* The component is not running.
DateIdle == InitDateVars(DateText("N/N/N", "", <<0, 2>>, <<1, 0>>, <<2, 0, 2, 6>>, FALSE))

\* _search_youtube line 47: natural = _format_date_for_search(date_str)
FormatDate ==
    /\ ~natural.some
    /\ natural' = Some(_format_date_for_search(meeting_date))
    /\ UNCHANGED meeting_date
    /\ UNCHANGED <<feedVars, ytVars, engineVars, appVars>>

NextDate == FormatDate

\* ---- _search_youtube ----

\* A faulty variant: the cap is noticed one identifier late.
Accumulate_LateCap(sn, rs, ids) ==
    LET RECURSIVE Acc(_, _, _)
        Acc(n, r, i) ==
            IF i = <<>> THEN <<n, r, FALSE>>
            ELSE IF Head(i) \notin n
                 THEN IF Len(r) + 1 > MAX_CANDIDATES
                      THEN <<n \cup {Head(i)}, Append(r, Head(i)), TRUE>>
                      ELSE Acc(n \cup {Head(i)}, Append(r, Head(i)), Tail(i))
            ELSE Acc(n, r, Tail(i))
    IN  Acc(sn, rs, ids)

RECURSIVE Accumulate(_, _, _)
\* lines 64-70 on the ids of one page: <<seen, results, hit>>, hit when the cap
\* was reached (the function returns at once).
Accumulate(sn, rs, ids) ==
    IF ids = <<>> THEN <<sn, rs, FALSE>>
    ELSE IF Head(ids) \notin sn
         THEN IF Len(rs) + 1 >= MAX_CANDIDATES
              THEN <<sn \cup {Head(ids)}, Append(rs, Head(ids)), TRUE>>
              ELSE Accumulate(sn \cup {Head(ids)}, Append(rs, Head(ids)), Tail(ids))
    ELSE Accumulate(sn, rs, Tail(ids))

\* _search_youtube has returned rs: get_transcript lines 92-95.
AfterSearch(rs) ==
    /\ candidates' = rs
    /\ IF rs = <<>>
       THEN tpc' = "done" /\ transcript' = None
       ELSE tpc' = "import" /\ UNCHANGED transcript

\* One search request that returns a page (lines 58-70).
SearchPage(ids) ==
    /\ tpc = "search"
    /\ queries_done < NUM_QUERIES
    /\ LET acc == Accumulate(seen, results, ids)
       IN  /\ seen' = acc[1]
           /\ results' = acc[2]
           /\ queries_done' = queries_done + 1
           /\ responses' = Append(responses, Some(ids))
           /\ IF acc[3] \/ queries_done + 1 = NUM_QUERIES
              THEN AfterSearch(acc[2])
              ELSE UNCHANGED <<tpc, candidates, transcript>>
    /\ UNCHANGED <<api, cand, video_id, skipped, fetched>>
    /\ UNCHANGED <<feedVars, dateVars, engineVars, appVars>>

\* One search request that raises (lines 71-73).
SearchFails ==
    /\ tpc = "search"
    /\ queries_done < NUM_QUERIES
    /\ queries_done' = queries_done + 1
    /\ responses' = Append(responses, None)
    /\ IF queries_done + 1 = NUM_QUERIES
       THEN AfterSearch(results)
       ELSE UNCHANGED <<tpc, candidates, transcript>>
    /\ UNCHANGED <<seen, results, api, cand, video_id, skipped, fetched>>
    /\ UNCHANGED <<feedVars, dateVars, engineVars, appVars>>

\* ---- get_transcript ----

\* lines 98-104: the lazy import succeeds
ImportOk ==
    /\ tpc = "import"
    /\ tpc' = "loop"
    /\ api' = TRUE
    /\ UNCHANGED <<queries_done, responses, seen, results, candidates, cand, video_id, skipped,
                   fetched, transcript>>
    /\ UNCHANGED <<feedVars, dateVars, engineVars, appVars>>

\* lines 100-102: ImportError
ImportFails ==
    /\ tpc = "import"
    /\ tpc' = "done"
    /\ transcript' = None
    /\ UNCHANGED <<queries_done, responses, seen, results, candidates, api, cand, video_id, skipped,
                   fetched>>
    /\ UNCHANGED <<feedVars, dateVars, engineVars, appVars>>

\* A faulty variant: the loop stays on the candidate it has just tried.
NextCandidate_Repolls == UNCHANGED <<cand, tpc, transcript>>

\* The loop goes to the next candidate; after the last one lines 132-136 return None.
NextCandidate ==
    /\ cand' = cand + 1
    /\ IF cand + 1 = Len(candidates)
       THEN tpc' = "done" /\ transcript' = None
       ELSE UNCHANGED <<tpc, transcript>>

\* A faulty variant: any transcript with a segment is returned.
Acceptable_AnyLength(segments) == Len(segments) > 0

\* The segments of a fetched transcript are enough to return it (line 116).
Acceptable(segments) == ~(Len(segments) < MIN_SEGMENTS)

\* lines 106-124: api.fetch returns f for candidate cand + 1
AttemptFetched(f) ==
    /\ tpc = "loop"
    /\ cand < Len(candidates)
    /\ video_id' = candidates[cand + 1]
    /\ fetched' = f
    /\ LET segments == KeepNonEmpty(f)
       IN  IF Acceptable(segments)
           THEN /\ transcript' = Some(segments)
                /\ tpc' = "done"
                /\ cand' = cand + 1
                /\ UNCHANGED skipped
           ELSE /\ skipped' = skipped \cup {Len(segments)}
                /\ NextCandidate
    /\ UNCHANGED <<queries_done, responses, seen, results, candidates, api>>
    /\ UNCHANGED <<feedVars, dateVars, engineVars, appVars>>

\* A faulty variant: an exception of one candidate ends the resolution.
AttemptRaises_Fatal ==
    /\ tpc = "loop"
    /\ cand < Len(candidates)
    /\ video_id' = candidates[cand + 1]
    /\ skipped' = skipped \cup {-1}
    /\ cand' = cand + 1
    /\ tpc' = "done"
    /\ transcript' = None
    /\ UNCHANGED <<queries_done, responses, seen, results, candidates, api, fetched>>
    /\ UNCHANGED <<feedVars, dateVars, engineVars, appVars>>

\* lines 126-130: api.fetch (or reading the captions) raises for candidate cand + 1
AttemptRaises ==
    /\ tpc = "loop"
    /\ cand < Len(candidates)
    /\ video_id' = candidates[cand + 1]
    /\ skipped' = skipped \cup {-1}
    /\ NextCandidate
    /\ UNCHANGED <<queries_done, responses, seen, results, candidates, api, fetched>>
    /\ UNCHANGED <<feedVars, dateVars, engineVars, appVars>>

InitYtVars ==
    /\ tpc = "search"
    /\ queries_done = 0
    /\ responses = <<>>
    /\ seen = {}
    /\ results = <<>>
    /\ candidates = <<>>
    /\ api = FALSE
    /\ cand = 0
    /\ video_id = 0
    /\ skipped = {}
    /\ fetched = <<>>
    /\ transcript = None

\* The component is not running.
YtIdle == InitYtVars

NextTranscript ==
    \/ \E ids \in SearchPages : SearchPage(ids)
    \/ SearchFails
    \/ ImportOk
    \/ ImportFails
    \/ \E f \in FetchedPool : AttemptFetched(f)
    \/ AttemptRaises

----------------------------------------------------------------------------
(* engine.py: text                                                         *)

\* The text of a transcript segment is long (a backend's budget is 18,000 to
\* 120,000 characters), so a text is a sequence of pieces, each a stretch of
\* `len` characters starting at offset `from` of source text `id`; id 0 is the
\* single space " ".join puts between two segments.
Piece(id, from, len) == [id |-> id, from |-> from, len |-> len]

RECURSIVE TextLen(_)
\* len(text)
TextLen(t) == IF t = <<>> THEN 0 ELSE Head(t).len + TextLen(Tail(t))

RECURSIVE Join(_)
\* " ".join(t["text"] for t in transcript)
Join(ts) ==
    IF ts = <<>> THEN <<>>
    ELSE IF Len(ts) = 1 THEN Head(ts).text
    ELSE Head(ts).text \o <<Piece(0, 0, 1)>> \o Join(Tail(ts))

RECURSIVE Slice(_, _)
\* text[:n]
Slice(t, n) ==
    IF t = <<>> \/ n <= 0 THEN <<>>
    ELSE IF Head(t).len <= n THEN <<Head(t)>> \o Slice(Tail(t), n - Head(t).len)
    ELSE <<Piece(Head(t).id, Head(t).from, n)>>

SUPPORTED_BACKENDS == {"groq_llama", "gemini", "trinity", "deepseek_r1"}

CONTEXT_LIMITS(b) ==
    CASE b = "gemini"      -> 120000
      [] b = "groq_llama"  -> 18000
      [] b = "trinity"     -> 40000
      [] b = "deepseek_r1" -> 64000

\* A faulty variant: the cut is one character short of the budget.
prepare_transcript_OneShort(ts, max_chars) ==
    LET full == Join(ts)
    IN  IF TextLen(full) > max_chars THEN Slice(full, max_chars - 1) ELSE full

\* prepare_transcript(transcript, max_chars)
prepare_transcript(ts, max_chars) ==
    LET full == Join(ts)
    IN  IF TextLen(full) > max_chars THEN Slice(full, max_chars) ELSE full

\* The five "## " section headers of the instruction, in its order.
SectionHeaders == <<"## Executive Summary", "## Key Votes & Decisions",
                    "## Fiscal Impact", "## Public Commentary",
                    "## Next Steps & Deadlines">>

\* build_prompt(meeting, text_snippet): the parts of the f-string.
build_prompt(m, text_snippet) ==
    [date         |-> m.date,
     agenda_note  |-> IF Truthy(m.agenda_url) THEN m.agenda_url ELSE None,
     minutes_note |-> IF Truthy(m.minutes_url) THEN m.minutes_url ELSE None,
     sections     |-> SectionHeaders,
     transcript   |-> text_snippet]

\* The label each _summarize_* method passes to _call_llm.
LabelOf(b) ==
    CASE b = "groq_llama"  -> "Groq"
      [] b = "gemini"      -> "Gemini"
      [] b = "trinity"     -> "OpenRouter"
      [] b = "deepseek_r1" -> "OpenRouter"

\* ---- _call_llm ----

\* An exception message is a sequence of words.  str.lower() of a word:
Lower(w) ==
    CASE w = "Rate_Limit"      -> "rate_limit"
      [] w = "Authentication"  -> "authentication"
      [] w = "Billing"         -> "billing"
      [] w = "Decommissioned"  -> "decommissioned"
      [] w = "Connection"      -> "connection"
      [] w = "INVALID_API_KEY" -> "invalid_api_key"
      [] OTHER                 -> w

LowerAll(msg) == [i \in 1..Len(msg) |-> Lower(msg[i])]

\* The markers of _call_llm that occur in a (lower-case) word.
MarkersIn(w) ==
    CASE w = "429"                  -> {"429"}
      [] w = "req_14290"            -> {"429"}
      [] w = "rate_limit"           -> {"rate_limit"}
      [] w = "rate_limit_exceeded"  -> {"rate_limit"}
      [] w = "insufficient_quota"   -> {"insufficient_quota"}
      [] w = "billing"              -> {"billing"}
      [] w = "decommissioned"       -> {"decommissioned"}
      [] w = "model_decommissioned" -> {"decommissioned", "model_decommissioned"}
      [] w = "invalid_api_key"      -> {"invalid_api_key"}
      [] w = "authentication"       -> {"authentication"}
      [] OTHER                      -> {}

\* "marker in msg"
In(marker, msg) == \E i \in 1..Len(msg) : marker \in MarkersIn(msg[i])

\* A faulty variant: the Gemini path does not classify.
call_llm_except_GeminiUnclassified(text, label) ==
    LET msg == LowerAll(text)
    IN  IF label = "Gemini" THEN <<"**", label, "Error:**">> \o text
        ELSE IF In("rate_limit", msg) \/ In("429", msg)
        THEN <<"**Rate Limit:**", label, "is busy. Wait 60 s and retry.">>
        ELSE IF In("insufficient_quota", msg) \/ In("billing", msg)
        THEN <<"**Quota Error:**", label, "has insufficient credits.">>
        ELSE IF In("decommissioned", msg) \/ In("model_decommissioned", msg)
        THEN <<"**Model Error:**", label, "model is decommissioned.">>
        ELSE IF In("invalid_api_key", msg) \/ In("authentication", msg)
        THEN <<"**Auth Error:**", "Invalid", label, "API key.">>
        ELSE <<"**", label, "Error:**">> \o text

\* A faulty variant: the authentication markers are tested first.
call_llm_except_AuthFirst(text, label) ==
    LET msg == LowerAll(text)
    IN  IF In("invalid_api_key", msg) \/ In("authentication", msg)
        THEN <<"**Auth Error:**", "Invalid", label, "API key.">>
        ELSE IF In("rate_limit", msg) \/ In("429", msg)
        THEN <<"**Rate Limit:**", label, "is busy. Wait 60 s and retry.">>
        ELSE IF In("insufficient_quota", msg) \/ In("billing", msg)
        THEN <<"**Quota Error:**", label, "has insufficient credits.">>
        ELSE IF In("decommissioned", msg) \/ In("model_decommissioned", msg)
        THEN <<"**Model Error:**", label, "model is decommissioned.">>
        ELSE <<"**", label, "Error:**">> \o text

\* _call_llm's except branch (lines 118-130): the text returned for exception e
\* with str(e) = text.
call_llm_except(text, label) ==
    LET msg == LowerAll(text)
    IN  IF In("rate_limit", msg) \/ In("429", msg)
        THEN <<"**Rate Limit:**", label, "is busy. Wait 60 s and retry.">>
        ELSE IF In("insufficient_quota", msg) \/ In("billing", msg)
        THEN <<"**Quota Error:**", label, "has insufficient credits.">>
        ELSE IF In("decommissioned", msg) \/ In("model_decommissioned", msg)
        THEN <<"**Model Error:**", label, "model is decommissioned.">>
        ELSE IF In("invalid_api_key", msg) \/ In("authentication", msg)
        THEN <<"**Auth Error:**", "Invalid", label, "API key.">>
        ELSE <<"**", label, "Error:**">> \o text

\* ---- the inputs ----

\* A transcript whose segment texts have the given lengths.
Segments(lens) == [i \in 1..Len(lens) |-> [text |-> <<Piece(i, 0, lens[i])>>, start |-> i, duration |-> 2]]

\* n segments of length len and after them one of length last:
\* its joined text has n * (len + 1) + last characters.
Uniform(n, len, last) == Segments([i \in 1..(n + 1) |-> IF i <= n THEN len ELSE last])

EngineTranscripts ==
    {<<>>, Segments(<<7>>), Uniform(19, 9, 10),
     Uniform(19, 899, 899), Uniform(19, 899, 900), Uniform(19, 899, 901),
     Uniform(20, 899, 50), Uniform(20, 856, 23),
     Uniform(19, 1999, 2000), Uniform(19, 1999, 2001),
     Uniform(19, 3199, 3200), Uniform(19, 3199, 3201),
     Uniform(19, 5999, 6000), Uniform(19, 5999, 6001),
     Uniform(41, 3999, 4000)}

Meeting(agenda, minutes) ==
    [name |-> "City Council", date |-> <<1, 14, 2025>>, iso |-> <<2025, 1, 14>>,
     detail_url |-> None, agenda_url |-> agenda, minutes_url |-> minutes,
     has_webcast |-> FALSE, webcast_url |-> None]

EngineMeetings ==
    {Meeting(a, m) : a \in {None, _abs(Some(Agenda11))}, m \in {None, _abs(Some(Minutes14))}}

\* What the completion call can return: the lines of the generated text, or None
\* (message.content and response.text are optional in the client libraries).
Prose == "prose"
GoodBody == <<SectionHeaders[1], Prose, SectionHeaders[2], Prose, SectionHeaders[3],
              Prose, SectionHeaders[4], Prose, SectionHeaders[5], Prose>>
Completions ==
    {Some(GoodBody),
     Some(<<Prose>> \o GoodBody),
     Some(SubSeq(GoodBody, 1, 8)),
     Some(GoodBody \o <<SectionHeaders[1], Prose>>),
     Some(<<SectionHeaders[1], Prose, SectionHeaders[3], Prose, SectionHeaders[2], Prose,
            SectionHeaders[4], Prose, SectionHeaders[5], Prose>>),
     Some(GoodBody \o <<"## Appendix", Prose>>),
     Some(<<"**Rate Limit:**", "Groq", "is busy. Wait 60 s and retry.">>),
     Some(<<>>),
     None}

\* str(e) of the exceptions the completion call can raise.
ErrorTexts ==
    {<<"Error", "code:", "429">>,
     <<"Rate_Limit", "reached">>,
     <<"rate_limit_exceeded">>,
     <<"insufficient_quota">>,
     <<"Billing", "hard", "limit">>,
     <<"model_decommissioned">>,
     <<"Decommissioned">>,
     <<"invalid_api_key">>,
     <<"INVALID_API_KEY">>,
     <<"Authentication", "failed">>,
     <<"invalid_api_key", "req_14290">>,
     <<"Authentication", "Billing">>,
     <<"decommissioned", "invalid_api_key">>,
     <<"Connection", "reset">>,
     <<>>}

\* ---- the state machine ----

InitEngineVars(b, m, ts) ==
    /\ epc = "ready"
    /\ backend = b
    /\ meeting = m
    /\ segs = ts
    /\ prompt = build_prompt(m, <<>>)
    /\ raised_msg = None
    /\ summary = None

\* generate_summary (lines 257-267) when the completion call returns c.
GenerateSummaryReturns(c) ==
    /\ epc = "ready"
    /\ prompt' = build_prompt(meeting, prepare_transcript(segs, CONTEXT_LIMITS(backend)))
    /\ summary' = c
    /\ epc' = "returned"
    /\ UNCHANGED <<backend, meeting, segs, raised_msg>>
    /\ UNCHANGED <<feedVars, ytVars, dateVars, appVars>>

\* generate_summary (lines 257-267) when the completion call raises e, str(e) = text.
GenerateSummaryRaises(text) ==
    /\ epc = "ready"
    /\ prompt' = build_prompt(meeting, prepare_transcript(segs, CONTEXT_LIMITS(backend)))
    /\ raised_msg' = Some(text)
    /\ summary' = Some(call_llm_except(text, LabelOf(backend)))
    /\ epc' = "returned"
    /\ UNCHANGED <<backend, meeting, segs>>
    /\ UNCHANGED <<feedVars, ytVars, dateVars, appVars>>

NextEngine ==
    \/ \E c \in Completions : GenerateSummaryReturns(c)
    \/ \E text \in ErrorTexts : GenerateSummaryRaises(text)

\* The component is not running.
EngineIdle == InitEngineVars("gemini", Meeting(None, None), <<>>) 

----------------------------------------------------------------------------
(* app.py: run_analysis, and main.py: run_pipeline                         *)

\* The calls of one session the model follows.
MaxRuns == 2

\* The API key a backend's constructor reads (engine.py lines 183, 206, 231).
CredentialOf(b) ==
    CASE b = "groq_llama" -> "GROQ_API_KEY"
      [] b = "gemini"     -> "GEMINI_API_KEY"
      [] OTHER            -> "OPENROUTER_API_KEY"

\* The sets of keys the sessions run with.
CredentialSets == {{}, {"GEMINI_API_KEY"}, {"GROQ_API_KEY", "OPENROUTER_API_KEY"}}

\* CouncilEngine(backend) with the keys ks set: whether the constructor returns
\* (it raises ValueError from _init_* when the key is missing).
Constructs(b, ks) == b \in SUPPORTED_BACKENDS /\ CredentialOf(b) \in ks

\* The meetings the callers are given.
AppMeetings ==
    {Meeting(_abs(Some(Agenda11)), None),
     [Meeting(None, None) EXCEPT !.date = <<2, 11, 2025>>, !.iso = <<2025, 2, 11>>]}

\* What get_transcript hands to the callers.
AppTranscripts == {None, Some(Uniform(19, 9, 10))}

\* What the completion call returns to generate_summary, and what it raises.
AppCompletions == {Some(GoodBody), Some(<<Prose>> \o GoodBody)}
AppErrorTexts == {<<"Error", "code:", "429">>, <<"Connection", "reset">>}

\* save_to_supabase (engine.py lines 58-81): its result and the table after it.
\* insert_ok tells whether the insert went through.
SaveResult(configured, insert_ok) ==
    IF ~configured THEN <<FALSE, "Supabase not configured (set SUPABASE_URL + SUPABASE_KEY)">>
    ELSE IF insert_ok THEN <<TRUE, "ok">>
    ELSE <<FALSE, "insert failed">>

\* The row save_to_supabase inserts (lines 68-76).
StoreRow(m, text, b) ==
    [meeting_date |-> m.date, title |-> m.name, summary |-> text, backend_used |-> b,
     agenda_url |-> m.agenda_url, minutes_url |-> m.minutes_url,
     webcast_url |-> m.webcast_url]

\* mem_report (app.py lines 612-623)
MemReport(m, text, b) ==
    [id |-> <<"mem_", IF "iso" \in DOMAIN m THEN m.iso ELSE m.date>>,
     meeting_date |-> m.date, title |-> m.name, summary |-> text, backend_used |-> b,
     agenda_url |-> m.agenda_url, minutes_url |-> m.minutes_url,
     webcast_url |-> m.webcast_url]

\* A faulty variant: the earlier report of the date stays in the list.
PutFirst_KeepsOld(mem, report) == <<report>> \o mem

\* app.py lines 624-626
PutFirst(mem, report) ==
    <<report>> \o SelectSeq(mem, LAMBDA r : r.meeting_date # report.meeting_date)

\* A button press: its kind, the meeting it is about (for "analyze_latest" what
\* get_latest_meeting returns, for "range" the meeting of the card) and the
\* position of the archive card (for "view").
Click(kind, m, i) == [kind |-> kind, m |-> m, i |-> i]

\* A script run that no button started.
NoClick == Click("none", None, 0)

AppVarsInit(ks, configured) ==
    /\ apc = "idle"
    /\ caller = "none"
    /\ runs = 0
    /\ creds = ks
    /\ store_configured = configured
    /\ a_meeting = Meeting(None, None)
    /\ a_backend = "gemini"
    /\ a_transcript = None
    /\ engine = FALSE
    /\ a_summary = None
    /\ saved = FALSE
    /\ save_msg = ""
    /\ store_rows = <<>>
    /\ mem_archive = <<>>
    /\ current = None
    /\ shown = {}
    /\ a_result = "none"
    /\ backend_choice = "gemini"
    /\ pending = FALSE
    /\ db_cache = None
    /\ archived_all = <<>>
    /\ click = NoClick

\* The component is not running.
AppIdle == AppVarsInit({}, FALSE)

\* The locals of a call that starts.
Begin(who, m, b, at) ==
    /\ apc = "idle"
    /\ runs < MaxRuns
    /\ runs' = runs + 1
    /\ caller' = who
    /\ a_meeting' = m
    /\ a_backend' = b
    /\ a_transcript' = None
    /\ engine' = FALSE
    /\ a_summary' = None
    /\ saved' = FALSE
    /\ save_msg' = ""
    /\ shown' = {}
    /\ a_result' = "running"
    /\ apc' = at

\* A call made from outside the script.
StartCall(who, m, b, at) ==
    /\ Begin(who, m, b, at)
    /\ UNCHANGED <<creds, store_configured, store_rows, mem_archive, current>>
    /\ UNCHANGED uiVars
    /\ UNCHANGED <<feedVars, ytVars, dateVars, engineVars>>

\* run_analysis(meeting, backend) is called (app.py lines 573-582).
StartAnalysis(m, b) == StartCall("run_analysis", m, b, "transcript")

\* run_pipeline() is called (main.py lines 10-14); CouncilEngine() takes its
\* backend from SUMMARIZER_BACKEND.
StartPipeline(b) == StartCall("run_pipeline", Meeting(None, None), b, "latest")

\* main.py lines 14-17: get_latest_meeting returns mo.
LatestMeeting(mo) ==
    /\ apc = "latest"
    /\ IF mo.some
       THEN /\ a_meeting' = mo.v
            /\ apc' = "transcript"
            /\ UNCHANGED <<shown, a_result>>
       ELSE /\ shown' = shown \cup {"Could not reach San Ramon portal."}
            /\ a_result' = "no_meeting"
            /\ apc' = "idle"
            /\ UNCHANGED a_meeting
    /\ UNCHANGED <<caller, runs, creds, store_configured, a_backend, a_transcript,
                   engine, a_summary, saved, save_msg, store_rows, mem_archive, current>>
    /\ UNCHANGED uiVars
    /\ UNCHANGED <<feedVars, ytVars, dateVars, engineVars>>

\* app.py lines 582-594 and main.py lines 20-23: get_transcript returns t.
TranscriptReturns(t) ==
    /\ apc = "transcript"
    /\ a_transcript' = t
    /\ IF Truthy(t)
       THEN /\ apc' = "engine"
            /\ UNCHANGED <<shown, a_result>>
       ELSE /\ shown' = shown \cup {"No transcript found"}
            /\ a_result' = "no_transcript"
            /\ apc' = "idle"
    /\ UNCHANGED <<caller, runs, creds, store_configured, a_meeting, a_backend,
                   engine, a_summary, saved, save_msg, store_rows, mem_archive, current>>
    /\ UNCHANGED uiVars
    /\ UNCHANGED <<feedVars, ytVars, dateVars, engineVars>>

\* app.py lines 598-601 with get_engine (lines 528-533), and main.py line 27:
\* the engine is constructed, or the constructor raises; get_engine catches the
\* exception, run_pipeline does not.
MakeEngine ==
    /\ apc = "engine"
    /\ IF Constructs(a_backend, creds)
       THEN /\ engine' = TRUE
            /\ apc' = "summary"
            /\ UNCHANGED <<shown, a_result>>
       ELSE /\ apc' = "idle"
            /\ UNCHANGED engine
            /\ IF caller = "run_analysis"
               THEN /\ shown' = shown \cup {"Engine init failed"}
                    /\ a_result' = "engine_failed"
               ELSE /\ a_result' = "raised"
                    /\ UNCHANGED shown
    /\ UNCHANGED <<caller, runs, creds, store_configured, a_meeting, a_backend,
                   a_transcript, a_summary, saved, save_msg, store_rows, mem_archive,
                   current>>
    /\ UNCHANGED uiVars
    /\ UNCHANGED <<feedVars, ytVars, dateVars, engineVars>>

\* app.py line 603 and main.py line 28: generate_summary returns text.
Summarized(text) ==
    /\ apc = "summary"
    /\ a_summary' = text
    /\ IF caller = "run_analysis"
       THEN /\ apc' = "save"
            /\ UNCHANGED <<shown, a_result>>
       ELSE /\ shown' = shown \cup {"FINAL SUMMARY"}
            /\ a_result' = "complete"
            /\ apc' = "idle"
    /\ UNCHANGED <<caller, runs, creds, store_configured, a_meeting, a_backend,
                   a_transcript, engine, saved, save_msg, store_rows, mem_archive,
                   current>>
    /\ UNCHANGED uiVars
    /\ UNCHANGED <<feedVars, ytVars, dateVars, engineVars>>

\* The completion call returns c.
SummaryReturns(c) == Summarized(c)

\* The completion call raises an exception with this text.
SummaryRaises(text) == Summarized(Some(call_llm_except(text, LabelOf(a_backend))))

\* A faulty variant: the report is recorded only when it was saved.
SaveAndRecord_OnlyWhenSaved(insert_ok) ==
    /\ apc = "save"
    /\ LET res == SaveResult(store_configured, insert_ok)
       IN  /\ saved' = res[1]
           /\ save_msg' = res[2]
           /\ store_rows' = IF res[1]
                            THEN Append(store_rows, StoreRow(a_meeting, a_summary, a_backend))
                            ELSE store_rows
           /\ db_cache' = IF res[1] THEN None ELSE db_cache
           /\ shown' = shown \cup {IF res[1] THEN "Saved to Supabase"
                                             ELSE "Supabase save skipped"}
           /\ IF res[1]
              THEN /\ mem_archive' = PutFirst(mem_archive,
                                              MemReport(a_meeting, a_summary, a_backend))
                   /\ current' = Some([summary |-> a_summary, meeting |-> a_meeting,
                                       backend |-> a_backend])
              ELSE UNCHANGED <<mem_archive, current>>
    /\ a_result' = "complete"
    /\ apc' = "idle"
    /\ UNCHANGED <<caller, runs, creds, store_configured, a_meeting, a_backend,
                   a_transcript, engine, a_summary>>
    /\ click' = NoClick
    /\ UNCHANGED <<backend_choice, pending, archived_all>>
    /\ UNCHANGED <<feedVars, ytVars, dateVars, engineVars>>

\* app.py lines 604-636: save_to_supabase with the insert going through or not
\* (the cache is cleared after a save), then the in-memory archive and the
\* session state; st.rerun() ends the script run.
SaveAndRecord(insert_ok) ==
    /\ apc = "save"
    /\ LET res == SaveResult(store_configured, insert_ok)
       IN  /\ saved' = res[1]
           /\ save_msg' = res[2]
           /\ store_rows' = IF res[1]
                            THEN Append(store_rows, StoreRow(a_meeting, a_summary, a_backend))
                            ELSE store_rows
           /\ db_cache' = IF res[1] THEN None ELSE db_cache
           /\ shown' = shown \cup {IF res[1] THEN "Saved to Supabase"
                                             ELSE "Supabase save skipped"}
    /\ mem_archive' = PutFirst(mem_archive, MemReport(a_meeting, a_summary, a_backend))
    /\ current' = Some([summary |-> a_summary, meeting |-> a_meeting, backend |-> a_backend])
    /\ a_result' = "complete"
    /\ apc' = "idle"
    /\ UNCHANGED <<caller, runs, creds, store_configured, a_meeting, a_backend,
                   a_transcript, engine, a_summary>>
    /\ click' = NoClick
    /\ UNCHANGED <<backend_choice, pending, archived_all>>
    /\ UNCHANGED <<feedVars, ytVars, dateVars, engineVars>>

NextApp ==
    \/ \E m \in AppMeetings, b \in SUPPORTED_BACKENDS : StartAnalysis(m, b)
    \/ \E b \in SUPPORTED_BACKENDS : StartPipeline(b)
    \/ \E m \in AppMeetings : LatestMeeting(Some(m))
    \/ LatestMeeting(None)
    \/ \E t \in AppTranscripts : TranscriptReturns(t)
    \/ MakeEngine
    \/ \E c \in AppCompletions : SummaryReturns(c)
    \/ \E text \in AppErrorTexts : SummaryRaises(text)
    \/ \E insert_ok \in BOOLEAN : SaveAndRecord(insert_ok)

----------------------------------------------------------------------------
(* app.py: the script, run once for every user event                       *)

\* The backends the sessions switch between, and what their backend calls
\* return.
SessionBackends == {"gemini", "groq_llama"}
SessionCompletions == {Some(GoodBody)}

\* The button presses of the sessions.
Clicks ==
    {NoClick, Click("clear_cache", None, 0), Click("refresh", None, 0),
     Click("clear_viewport", None, 0), Click("analyze_latest", None, 0)}
    \cup {Click("analyze_latest", Some(m), 0) : m \in AppMeetings}
    \cup {Click("range", Some(m), 0) : m \in AppMeetings}
    \cup {Click("view", None, i) : i \in 1..2}

RECURSIVE Reverse(_)
Reverse(s) == IF s = <<>> THEN <<>> ELSE Append(Reverse(Tail(s)), Head(s))

\* load_from_supabase (engine.py lines 84-100): the rows newest first, or [] when
\* there is no client or the query raises.
load_from_supabase(configured, query_ok) ==
    IF configured /\ query_ok THEN Reverse(store_rows) ELSE <<>>

\* _cached_load_from_supabase (app.py lines 536-543) with cache entry c.
_cached_load_from_supabase(c, query_ok) ==
    IF c.some THEN c.v ELSE load_from_supabase(store_configured, query_ok)

\* load_archive (app.py lines 546-558)
load_archive(db_rows, mem) ==
    IF mem # <<>>
    THEN LET db_dates == {db_rows[i].meeting_date : i \in 1..Len(db_rows)}
             extras == SelectSeq(mem, LAMBDA r : r.meeting_date \notin db_dates)
         IN  extras \o db_rows
    ELSE db_rows

\* The session's report taken from an archive entry (lines 914-922, 982-990).
Viewed(r) ==
    [summary |-> r.summary,
     meeting |-> [date |-> r.meeting_date, name |-> r.title, agenda_url |-> r.agenda_url,
                  minutes_url |-> r.minutes_url, webcast_url |-> r.webcast_url],
     backend |-> r.backend_used]

\* No call of run_analysis starts.
NoCall ==
    UNCHANGED <<apc, caller, runs, a_meeting, a_backend, a_transcript, engine, a_summary,
                saved, save_msg, shown, a_result>>

\* A faulty variant: reading the flag leaves it set.
PopPending_Keeps == [value |-> pending, after |-> pending]

\* st.session_state.pop("_pending_reanalysis", False) (line 737): the value read
\* and the flag afterwards.
PopPending == [value |-> pending, after |-> FALSE]

\* _on_change (lines 661-669): the radio of the engine selector is set to
\* chosen. Only the fragment is run again, not the script.
SelectBackend(chosen) ==
    /\ apc = "idle"
    /\ click = NoClick
    /\ backend_choice' = chosen
    /\ IF backend_choice # chosen /\ current.some
       THEN /\ current' = Some([current.v EXCEPT !.summary = None])
            /\ pending' = TRUE
       ELSE UNCHANGED <<current, pending>>
    /\ NoCall
    /\ UNCHANGED <<creds, store_configured, store_rows, mem_archive, db_cache, archived_all,
                   click>>
    /\ UNCHANGED <<feedVars, ytVars, dateVars, engineVars>>

\* The script from line 775 to its end for button press c, the cache entry being
\* cache and the archive list arch: Refresh (779-782), Analyze Latest Meeting
\* (784-795), Clear Viewport (863-866), View of an archive card (913-923), and
\* the button of a meeting card (975-993).
HandleClick(c, cache, arch) ==
    CASE c.kind = "refresh" ->
            db_cache' = None /\ UNCHANGED current /\ NoCall
      [] c.kind = "analyze_latest" ->
            /\ db_cache' = cache
            /\ UNCHANGED current
            /\ IF c.m.some
               THEN Begin("run_analysis", c.m.v, backend_choice, "transcript")
               ELSE NoCall
      [] c.kind = "clear_viewport" ->
            /\ db_cache' = cache
            /\ current' = IF current.some /\ current.v.summary.some THEN None ELSE current
            /\ NoCall
      [] c.kind = "view" ->
            /\ db_cache' = cache
            /\ current' = IF c.i <= Len(arch) THEN Some(Viewed(arch[c.i])) ELSE current
            /\ NoCall
      [] c.kind = "range" ->
            /\ db_cache' = cache
            /\ LET matches == SelectSeq(arch, LAMBDA r : r.meeting_date = c.m.v.date)
               IN  IF matches # <<>>
                   THEN current' = Some(Viewed(matches[1])) /\ NoCall
                   ELSE /\ UNCHANGED current
                        /\ Begin("run_analysis", c.m.v, backend_choice, "transcript")
      [] OTHER ->
            db_cache' = cache /\ UNCHANGED current /\ NoCall

\* One run of the script for button press c (lines 640-993): Clear Cache in the
\* sidebar (709-712), load_archive (731), the pending block (737-740), then the
\* rest of the script. query_ok tells whether the store answers.
ScriptRun(c, query_ok) ==
    /\ apc = "idle"
    /\ click = NoClick
    /\ LET cleared == c.kind = "clear_cache"
           mem == IF cleared THEN <<>> ELSE mem_archive
           db_rows == _cached_load_from_supabase(IF cleared THEN None ELSE db_cache, query_ok)
           popped == PopPending
       IN  /\ mem_archive' = mem
           /\ archived_all' = load_archive(db_rows, mem)
           /\ pending' = popped.after
           /\ IF popped.value /\ current.some
              THEN /\ Begin("run_analysis", current.v.meeting, backend_choice, "transcript")
                   /\ click' = c
                   /\ db_cache' = Some(db_rows)
                   /\ UNCHANGED current
              ELSE /\ click' = NoClick
                   /\ HandleClick(c, Some(db_rows), load_archive(db_rows, mem))
    /\ UNCHANGED <<creds, store_configured, store_rows, backend_choice>>
    /\ UNCHANGED <<feedVars, ytVars, dateVars, engineVars>>

\* run_analysis, called by the pending block, has returned without st.rerun():
\* the script goes on with the button press.
Resume ==
    /\ apc = "idle"
    /\ click # NoClick
    /\ click' = NoClick
    /\ HandleClick(click, db_cache, archived_all)
    /\ UNCHANGED <<creds, store_configured, store_rows, mem_archive, backend_choice, pending,
                   archived_all>>
    /\ UNCHANGED <<feedVars, ytVars, dateVars, engineVars>>

\* The entry of st.cache_data(ttl=60) expires (line 536).
CacheExpires ==
    /\ apc = "idle"
    /\ click = NoClick
    /\ db_cache.some
    /\ db_cache' = None
    /\ NoCall
    /\ UNCHANGED <<creds, store_configured, store_rows, mem_archive, current, backend_choice,
                   pending, archived_all, click>>
    /\ UNCHANGED <<feedVars, ytVars, dateVars, engineVars>>

NextSession ==
    \/ \E b \in SessionBackends : SelectBackend(b)
    \/ \E c \in Clicks, query_ok \in BOOLEAN : ScriptRun(c, query_ok)
    \/ Resume
    \/ CacheExpires
    \/ \E t \in AppTranscripts : TranscriptReturns(t)
    \/ MakeEngine
    \/ \E c \in SessionCompletions : SummaryReturns(c)
    \/ \E insert_ok \in BOOLEAN : SaveAndRecord(insert_ok)

----------------------------------------------------------------------------
(* Specifications                                                          *)

vars == <<feedVars, ytVars, dateVars, engineVars, appVars>>

\* The feed parser on every document of sibling divs, called with the default
\* range.
InitFeed ==
    /\ \E d \in Docs(FeedEntries, {FALSE}) : InitFeedVars(d, DefaultStart, DefaultEnd)
    /\ YtIdle
    /\ DateIdle
    /\ EngineIdle
    /\ AppIdle

SpecFeed == InitFeed /\ [][NextFeed]_vars

\* get_meetings_in_range on every range argument, the divs of the document
\* siblings or enclosed in one outer div.
InitRange ==
    /\ \E d \in Docs(RangeEntries, BOOLEAN), r \in RangeArgs : InitFeedVars(d, r[1], r[2])
    /\ YtIdle
    /\ DateIdle
    /\ EngineIdle
    /\ AppIdle

SpecRange == InitRange /\ [][NextFeed]_vars

\* The component is not running.
FeedIdle == InitFeedVars([wrapped |-> FALSE, entries |-> <<>>], DefaultStart, DefaultEnd)

\* get_transcript on every outcome of the searches and of the transcript fetches.
InitTranscript == InitYtVars /\ DateIdle /\ FeedIdle /\ EngineIdle /\ AppIdle

SpecTranscript == InitTranscript /\ [][NextTranscript]_vars

\* generate_summary on every backend, transcript and outcome of the completion call.
InitEngine ==
    /\ \E b \in SUPPORTED_BACKENDS, m \in EngineMeetings, ts \in EngineTranscripts :
          InitEngineVars(b, m, ts)
    /\ FeedIdle
    /\ YtIdle
    /\ DateIdle
    /\ AppIdle

SpecEngine == InitEngine /\ [][NextEngine]_vars

\* _format_date_for_search on every date text.
InitDate ==
    /\ \E md \in SearchDates : InitDateVars(md)
    /\ FeedIdle
    /\ YtIdle
    /\ EngineIdle
    /\ AppIdle

SpecDate == InitDate /\ [][NextDate]_vars

\* Sessions of run_analysis and run_pipeline calls, on every configuration of
\* the keys and of the store.
InitApp ==
    /\ \E ks \in CredentialSets, configured \in BOOLEAN : AppVarsInit(ks, configured)
    /\ FeedIdle
    /\ YtIdle
    /\ DateIdle
    /\ EngineIdle

SpecApp == InitApp /\ [][NextApp]_vars

\* Sessions of the script: button presses and changes of the engine selector,
\* with the keys of the two backends set and the store configured (its inserts and
\* queries go through or raise).
InitSession ==
    /\ AppVarsInit({"GEMINI_API_KEY", "GROQ_API_KEY"}, TRUE)
    /\ FeedIdle
    /\ YtIdle
    /\ DateIdle
    /\ EngineIdle

SpecSession == InitSession /\ [][NextSession]_vars

----------------------------------------------------------------------------
(* Properties                                                              *)

RECURSIVE ParseAll(_, _)
\* The dict one parse pass builds from the divs ds, starting from bd.
ParseAll(bd, ds) == IF ds = <<>> THEN bd ELSE ParseAll(ProcessDiv(bd, Head(ds)), Tail(ds))

\* Every reordering of a sequence.
Reorderings(s) ==
    {[i \in 1..Len(s) |-> s[f[i]]] :
        f \in {g \in [1..Len(s) -> 1..Len(s)] : \A i, j \in 1..Len(s) : g[i] = g[j] => i = j}}

\* The dates of the entries the parser accepts.
AcceptedDates(entries) ==
    {IsoOf(_parse_date(entries[i].heading)) : i \in {j \in 1..Len(entries) : Accepted(entries[j])}}

\* C1: one parse pass yields exactly one record per date that has an accepted
\* City Council entry, and the records are the same for every ordering of the
\* document's entries (stated for documents without an enclosing div).
C1_OrderIndependentMerge ==
    (pc = "done" /\ html.some /\ ~doc.wrapped) =>
        /\ DOMAIN by_date = AcceptedDates(doc.entries)
        /\ Len(meetings) = Cardinality(AcceptedDates(doc.entries))
        /\ \A p \in Reorderings(doc.entries) : ParseAll(EmptyDict, p) = by_date

\* ---- youtube_logic.py ----

\* The number of captions of a fetched transcript with spoken text.
SpokenCount(f) ==
    Cardinality({i \in 1..Len(f) : f[i].text.some /\ Range(f[i].text.v) \ {WS} # {}})

\* A returned segment's text has a character that is not white space.
HasText(seg) == Range(seg.text) \ {WS} # {}

\* C2: get_transcript tries the candidates in search order and returns the
\* transcript of the first candidate with at least MIN_SEGMENTS non-empty
\* segments: every candidate passed over before it had fewer (or its fetch
\* raised), and no returned segment has empty or white-space-only text.
C2_FirstAcceptableCandidate ==
    /\ (tpc \in {"loop", "done"} /\ cand > 0) => video_id = candidates[cand]
    /\ (tpc = "done" /\ transcript.some) =>
          /\ \A c \in skipped : c < MIN_SEGMENTS
          /\ SpokenCount(fetched) >= MIN_SEGMENTS
          /\ Len(transcript.v) = SpokenCount(fetched)
          /\ \A i \in 1..Len(transcript.v) :
                /\ HasText(transcript.v[i])
                /\ fetched[transcript.v[i].start].text = Some(transcript.v[i].text)
                /\ i > 1 => transcript.v[i - 1].start < transcript.v[i].start

\* C2 witness: candidates with 5, 15 and 19 segments were passed over and the
\* fourth, with 42, is returned.
C2_Witness ==
    /\ tpc = "done" /\ transcript.some
    /\ skipped = {5, 15, 19} /\ cand = 4
    /\ Len(transcript.v) = 42

\* C3: get_transcript never returns a transcript with fewer than MIN_SEGMENTS
\* non-empty segments; when no candidate reaches the threshold the result is None.
C3_NeverBelowThreshold ==
    /\ transcript.some =>
          Cardinality({i \in 1..Len(transcript.v) : HasText(transcript.v[i])}) >= MIN_SEGMENTS
    /\ (tpc = "done" /\ ~transcript.some /\ cand > 0) =>
          /\ cand = Len(candidates)
          /\ \A c \in skipped : c < MIN_SEGMENTS

\* C3 witness: four candidates, each below the threshold or failing, and the
\* result is None.
C3_Witness ==
    /\ tpc = "done" /\ ~transcript.some
    /\ cand = Len(candidates) /\ cand >= 4
    /\ {-1, 19} \subseteq skipped

\* ---- scraper.py: get_meetings_in_range ----

\* A date as one number, ordered as the calendar is.
DayNum(y, m, d) == y * 10000 + m * 100 + d

\* A bound written year-month-day that names a day of the calendar.
ParsableBound(s) ==
    s.shape = "Y-M-D" /\ s.y \in 1000..9999 /\ s.m \in 1..12 /\ s.d \in 1..DaysIn(s.m, s.y)

BoundNum(s) == DayNum(s.y, s.m, s.d)
RecordNum(r) == DayNum(r.iso[1], r.iso[2], r.iso[3])

\* C4: for start <= end, get_meetings_in_range returns exactly the parsed records
\* whose date lies in [start, end], both bounds included, newest first with
\* strictly decreasing dates.
C4_RangeFilter ==
    (pc = "done" /\ ParsableBound(start_date) /\ ParsableBound(end_date)
       /\ BoundNum(start_date) <= BoundNum(end_date)) =>
        /\ Range(filtered) =
             {r \in Range(meetings) :
                 BoundNum(start_date) <= RecordNum(r) /\ RecordNum(r) <= BoundNum(end_date)}
        /\ \A i \in 1..(Len(filtered) - 1) : RecordNum(filtered[i]) > RecordNum(filtered[i + 1])

\* C4 witness: three meetings were parsed; the two returned lie on the two bounds
\* of the range and the third, later one is left out.
C4_Witness ==
    /\ pc = "done"
    /\ Len(meetings) = 3 /\ Len(filtered) = 2
    /\ RecordNum(filtered[1]) = BoundNum(end_date)
    /\ RecordNum(filtered[2]) = BoundNum(start_date)

\* C5: get_meetings_in_range called with an invalid range (start later than end, or
\* a bound that is not a parsable date) ends by raising InvalidRangeError.
C5_InvalidRangeRaises ==
    (pc = "done" /\ (\/ ~ParsableBound(start_date)
                     \/ ~ParsableBound(end_date)
                     \/ BoundNum(start_date) > BoundNum(end_date))) =>
        outcome = "raised"

\* ---- scraper.py: URLs ----

UrlsOf(r) == {r.detail_url, r.agenda_url, r.minutes_url, r.webcast_url}

\* Absent, or a non-empty text that starts as an absolute URL does.
AbsentOrAbsolute(u) == ~u.some \/ (u.v # <<>> /\ Head(u.v) \in HttpAtoms)

\* The text of an href without its white space (white space only surrounds the
\* hrefs of the documents).
Unspaced(href) == SelectSeq(href, LAMBDA a : a # WS)

\* The same without the slashes a relative href starts with (a relative href of
\* the documents has no other slash atom).
Unslashed(href) == SelectSeq(Unspaced(href), LAMBDA a : a # "/")

\* What the claim asks of _abs for one raw href.
ResolvedAsClaimed(href) ==
    LET u == _abs(Some(href))
    IN  IF Unspaced(href) = <<>> THEN u = None
        ELSE IF Head(Unspaced(href)) \in HttpAtoms THEN u = Some(Unspaced(href))
        ELSE u = Some(IQM2_BASE \o <<"/">> \o Unslashed(href))

\* C6: in every record of a parse pass each of detail_url, agenda_url, minutes_url
\* and webcast_url is absent or a non-empty absolute URL; an empty or
\* white-space-only href resolves to absent, never to the empty string, and a
\* relative href is resolved against the base URL.
C6_AbsentOrAbsoluteUrls ==
    /\ \A k \in DOMAIN by_date : \A u \in UrlsOf(by_date[k]) : AbsentOrAbsolute(u)
    /\ \A i \in 1..Len(meetings) : \A u \in UrlsOf(meetings[i]) : AbsentOrAbsolute(u)
    /\ \A i \in 1..Len(filtered) : \A u \in UrlsOf(filtered[i]) : AbsentOrAbsolute(u)
    /\ pc = "parse" =>
          \A i \in 1..Len(doc.entries) : \A j \in 1..Len(doc.entries[i].links) :
              ResolvedAsClaimed(doc.entries[i].links[j].href)

\* C6 witness: a returned record whose webcast entry had only empty and
\* white-space hrefs (webcast_url absent) and whose agenda_url is a relative href
\* resolved against the base URL.
C6_Witness ==
    /\ pc = "done"
    /\ \E i \in 1..Len(filtered) :
          /\ filtered[i].has_webcast /\ filtered[i].webcast_url = None
          /\ filtered[i].agenda_url = Some(IQM2_BASE \o <<"/", "FileOpen.aspx?Type=1&ID=13">>)

\* ---- engine.py ----

RECURSIVE SegmentChars(_)
\* The characters of the segment texts of a transcript, without separators.
SegmentChars(ts) == IF ts = <<>> THEN 0 ELSE TextLen(Head(ts).text) + SegmentChars(Tail(ts))

\* The length of the segment texts joined by single spaces.
BlobLen(ts) == IF ts = <<>> THEN 0 ELSE SegmentChars(ts) + Len(ts) - 1

\* p is the text t cut after some character.
IsPrefixText(p, t) ==
    /\ Len(p) <= Len(t)
    /\ \A i \in 1..(Len(p) - 1) : p[i] = t[i]
    /\ Len(p) > 0 =>
          /\ p[Len(p)].id = t[Len(p)].id
          /\ p[Len(p)].from = t[Len(p)].from
          /\ p[Len(p)].len \in 1..t[Len(p)].len

KindOf(msg) ==
    IF msg = <<>> THEN "none"
    ELSE CASE Head(msg) = "**Rate Limit:**"  -> "BackendRateLimited"
           [] Head(msg) = "**Quota Error:**" -> "BackendQuotaExceeded"
           [] Head(msg) = "**Model Error:**" -> "BackendModelUnavailable"
           [] Head(msg) = "**Auth Error:**"  -> "BackendAuthError"
           [] Head(msg) = "**"               -> "BackendGenericError"
           [] OTHER                          -> "none"

\* The markers of an exception text, letter case ignored.
HasRateMarker(text)  == In("429", LowerAll(text)) \/ In("rate_limit", LowerAll(text))
HasQuotaMarker(text) == In("insufficient_quota", LowerAll(text)) \/ In("billing", LowerAll(text))
HasModelMarker(text) == In("decommissioned", LowerAll(text))
HasAuthMarker(text)  == In("invalid_api_key", LowerAll(text)) \/ In("authentication", LowerAll(text))

\* The generic message carries the exception text as it was raised.
PreservesText(msg, text) == Len(msg) = 3 + Len(text) /\ SubSeq(msg, 4, Len(msg)) = text

\* C8 as stated: every marker decides the kind on its own.
C8_EveryMarkerDecides ==
    (epc = "returned" /\ raised_msg.some) =>
        LET text == raised_msg.v
            kind == KindOf(summary.v)
        IN  /\ HasRateMarker(text)  => kind = "BackendRateLimited"
            /\ HasAuthMarker(text)  => kind = "BackendAuthError"
            /\ HasQuotaMarker(text) => kind = "BackendQuotaExceeded"
            /\ HasModelMarker(text) => kind = "BackendModelUnavailable"
            /\ (~HasRateMarker(text) /\ ~HasAuthMarker(text) /\ ~HasQuotaMarker(text)
                  /\ ~HasModelMarker(text)) =>
                   (kind = "BackendGenericError" /\ PreservesText(summary.v, text))

\* C8, amended: _call_llm classifies every backend exception into exactly one
\* kind, the first that matches in the order rate limit, quota, model
\* unavailable, authentication; a text with no marker is BackendGenericError and
\* its message carries the original text.
C8_FirstMarkerDecides ==
    (epc = "returned" /\ raised_msg.some) =>
        LET text == raised_msg.v
            kind == KindOf(summary.v)
        IN  /\ summary.some
            /\ kind = IF HasRateMarker(text) THEN "BackendRateLimited"
                      ELSE IF HasQuotaMarker(text) THEN "BackendQuotaExceeded"
                      ELSE IF HasModelMarker(text) THEN "BackendModelUnavailable"
                      ELSE IF HasAuthMarker(text) THEN "BackendAuthError"
                      ELSE "BackendGenericError"
            /\ kind = "BackendGenericError" => PreservesText(summary.v, text)

\* C8 witness: a text with an authentication marker and "429" in a request id is
\* classified as a rate limit.
C8_Witness ==
    /\ epc = "returned" /\ raised_msg.some
    /\ HasAuthMarker(raised_msg.v) /\ HasRateMarker(raised_msg.v)
    /\ KindOf(summary.v) = "BackendRateLimited"

\* The lines of a body that are "## " headers.
IsHeaderLine(line) == line \in Range(SectionHeaders) \cup {"## Appendix"}

\* C9: when the completion call returns without raising, the returned body starts
\* with "## Executive Summary" and its headers are exactly the five required
\* ones, in order, each once.
C9_ReportFormat ==
    (epc = "returned" /\ ~raised_msg.some) =>
        /\ summary.some
        /\ summary.v # <<>>
        /\ Head(summary.v) = "## Executive Summary"
        /\ SelectSeq(summary.v, IsHeaderLine) = SectionHeaders

\* ---- scraper.py: the end-to-end scenario ----

\* The sub-type the if / elif chain of lines 134-159 gives a heading.
SubType(heading) ==
    IF HeadingHas("- Agenda -", heading) THEN "Agenda"
    ELSE IF HeadingHas("- Minutes -", heading) THEN "Minutes"
    ELSE IF HeadingHas("- Webcast -", heading) THEN "Webcast"
    ELSE "none"

\* The uncancelled council entries of the document dated in January 2025.
JanuaryEntries ==
    {e \in Range(doc.entries) :
        /\ Accepted(e)
        /\ _parse_date(e.heading).y = 2025
        /\ _parse_date(e.heading).m = 1}

HasFileLink(e) == \E l \in Range(e.links) : Contains("FileOpen", l.href)

HasMinutesLink(e) ==
    \E l \in Range(e.links) :
        Contains("FileOpen", l.href) \/ Contains("Type=16", l.href) \/ TextHasMinute(l.text)

\* The scenario: the feed was retrieved, the range is 2025-01-01..2025-01-31 and
\* the only uncancelled council meeting in it is on 2025-01-14, with an agenda
\* and a minutes sub-entry and no webcast sub-entry.
Scenario ==
    /\ pc = "done" /\ html.some
    /\ start_date = DateStr("Y-M-D", 2025, 1, 1)
    /\ end_date = DateStr("Y-M-D", 2025, 1, 31)
    /\ \A e \in JanuaryEntries : _parse_date(e.heading).d = 14
    /\ \E e \in JanuaryEntries : SubType(e.heading) = "Agenda"
    /\ \E e \in JanuaryEntries : SubType(e.heading) = "Minutes"
    /\ \A e \in JanuaryEntries : SubType(e.heading) # "Webcast"

ScenarioResult ==
    /\ Len(filtered) = 1
    /\ filtered[1].iso = <<2025, 1, 14>>
    /\ Truthy(filtered[1].agenda_url)
    /\ Truthy(filtered[1].minutes_url)
    /\ filtered[1].webcast_url = None
    /\ filtered[1].has_webcast = FALSE

C11_BoundedRetries ==
    /\ attempt \in 0..MAX_RETRIES
    /\ pc = "fetch" => (sleeps = attempt /\ ~html.some)
    /\ html.some => (attempt \in 1..MAX_RETRIES /\ sleeps = attempt - 1)
    /\ (pc = "done" /\ ~html.some /\ StrptimeIso(start_date).some /\ StrptimeIso(end_date).some) =>
          /\ attempt = MAX_RETRIES
          /\ sleeps = MAX_RETRIES - 1
          /\ meetings = <<>> /\ filtered = <<>>
          /\ outcome = "returned"

\* C11 witness: the feed had an entry to give, every attempt failed, and the
\* caller was handed the empty list after one backoff.
C11_Witness ==
    /\ pc = "done" /\ ~html.some
    /\ doc.entries # <<>> /\ Accepted(doc.entries[1])
    /\ attempt = MAX_RETRIES /\ sleeps = 1
    /\ filtered = <<>> /\ outcome = "returned"

\* ---- engine.py: what generate_summary hands to its caller ----

\* The values generate_summary returns on backend b after a classified failure.
FailureResults(b) == {Some(call_llm_except(text, LabelOf(b))) : text \in ErrorTexts}

\* C12: the caller can tell a successful report from a classified failure by the
\* returned value: a value returned when the completion call did not raise is
\* never one that is also returned after a failure.
C12_FailureDistinguishable ==
    (epc = "returned" /\ ~raised_msg.some) => summary \notin FailureResults(backend)

\* C13: on every backend an exception of the completion call ends in a returned
\* message of one of the five kinds, and the kind is the one every other backend
\* gives the same exception text.
C13_CentralClassifier ==
    (epc = "returned" /\ raised_msg.some) =>
        /\ summary.some
        /\ KindOf(summary.v) \in {"BackendRateLimited", "BackendQuotaExceeded",
                                  "BackendModelUnavailable", "BackendAuthError",
                                  "BackendGenericError"}
        /\ \A b \in SUPPORTED_BACKENDS :
              KindOf(call_llm_except(raised_msg.v, LabelOf(b))) = KindOf(summary.v)

\* C13 witness: a rate-limit exception raised through the OpenRouter client came
\* back as the rate-limit message.
C13_Witness ==
    /\ epc = "returned" /\ backend = "deepseek_r1"
    /\ raised_msg = Some(<<"Error", "code:", "429">>)
    /\ summary = Some(<<"**Rate Limit:**", "OpenRouter", "is busy. Wait 60 s and retry.">>)

\* ---- youtube_logic.py: get_transcript on failing candidates ----

RECURSIVE PagesOf(_)
\* The identifiers of the pages the queries returned, in the order they were read.
PagesOf(rsp) ==
    IF rsp = <<>> THEN <<>>
    ELSE (IF Head(rsp).some THEN Head(rsp).v ELSE <<>>) \o PagesOf(Tail(rsp))

RECURSIVE FirstSeen(_)
\* A sequence without the later occurrences of its elements.
FirstSeen(s) ==
    IF s = <<>> THEN <<>>
    ELSE LET d == FirstSeen(SubSeq(s, 1, Len(s) - 1))
         IN  IF s[Len(s)] \in Range(d) THEN d ELSE Append(d, s[Len(s)])

\* The first n elements of s, all of them when it has fewer.
Take(s, n) == SubSeq(s, 1, IF Len(s) < n THEN Len(s) ELSE n)

\* The identifiers first seen in the first k responses.
FoundAfter(k) == FirstSeen(PagesOf(SubSeq(responses, 1, k)))

\* C15: _search_youtube returns the identifiers of the pages without duplicates,
\* in first-seen order, at most MAX_CANDIDATES of them; no query is issued once
\* the cap is reached, and a query that fails does not stop the later ones.
C15_SearchDedupCap ==
    /\ queries_done = Len(responses)
    /\ queries_done <= NUM_QUERIES
    /\ \A k \in 0..(Len(responses) - 1) : Len(FoundAfter(k)) < MAX_CANDIDATES
    /\ tpc # "search" =>
          /\ candidates = Take(FoundAfter(Len(responses)), MAX_CANDIDATES)
          /\ Len(candidates) <= MAX_CANDIDATES
          /\ \A i, j \in 1..Len(candidates) : candidates[i] = candidates[j] => i = j
          /\ Len(candidates) < MAX_CANDIDATES => queries_done = NUM_QUERIES

\* C15 witness: the first query failed, the second returned a page of more than
\* MAX_CANDIDATES identifiers, and the search stopped there with the cap.
C15_Witness ==
    /\ tpc # "search"
    /\ queries_done = 2
    /\ responses[1] = None
    /\ Len(PagesOf(responses)) > MAX_CANDIDATES
    /\ Len(candidates) = MAX_CANDIDATES

\* ---- app.py and main.py: the callers of the engine ----

\* C16: generate_summary runs only on an engine whose credential is set, and a
\* call made with the credential of its backend missing ends with the
\* configuration error before the transcript stage: get_transcript is not called.
C16_CredentialErrorFirst ==
    /\ apc \in {"summary", "save"} => (engine /\ CredentialOf(a_backend) \in creds)
    /\ (a_transcript.some \/ "No transcript found" \in shown) =>
          CredentialOf(a_backend) \in creds

\* C17: a run_analysis that obtained a summary ends with that summary as the
\* current report and first in the in-memory archive, whether or not it was
\* saved; a failed save is a (False, message) result shown as a warning, and
\* adds no row.
C17_ReportSurvivesSaveFailure ==
    /\ caller = "run_analysis" => a_result # "raised"
    /\ (caller = "run_analysis" /\ apc = "idle" /\ a_summary.some) =>
          /\ a_result = "complete"
          /\ current.some /\ current.v.summary = a_summary /\ current.v.meeting = a_meeting
          /\ mem_archive # <<>>
          /\ mem_archive[1].summary = a_summary
          /\ mem_archive[1].meeting_date = a_meeting.date
          /\ saved \in BOOLEAN
          /\ ~saved => (save_msg \notin {"", "ok"} /\ "Supabase save skipped" \in shown)
    /\ ~store_configured => store_rows = <<>>

\* C17 witness: the store is configured, the insert raised, and the report is
\* the current one and in the archive while the table is empty.
C17_Witness ==
    /\ caller = "run_analysis" /\ apc = "idle" /\ a_result = "complete"
    /\ store_configured /\ ~saved /\ store_rows = <<>>
    /\ current.some /\ current.v.summary = Some(GoodBody)
    /\ mem_archive[1].summary = Some(GoodBody)

\* ---- youtube_logic.py: _format_date_for_search ----

\* The calendar date a text spells in one of the accepted ways: slash-separated
\* month/day/year, ISO year-month-day, dash-separated month-day-year, or month
\* name (long or short), day, comma, year; <<>> when it spells none.
SpelledDate(t) ==
    LET Day(y, m, d) ==
            IF Len(y) = 4 /\ Len(m) \in 1..2 /\ Len(d) \in 1..2
               /\ Val(m) \in 1..12 /\ Val(d) \in 1..DaysIn(Val(m), Val(y))
               /\ Val(y) >= 1000
            THEN <<Val(y), Val(m), Val(d)>> ELSE <<>>
    IN  CASE t.shape = "N/N/N" -> Day(t.n3, t.n1, t.n2)
          [] t.shape = "N-N-N" -> IF Len(t.n1) = 4 THEN Day(t.n1, t.n2, t.n3)
                                  ELSE Day(t.n3, t.n1, t.n2)
          [] t.shape = "W N, N" ->
               IF MonthNum(t.w) # 0
               THEN Day(t.n2, TwoDigits(MonthNum(t.w)), t.n1) ELSE <<>>
          [] OTHER -> <<>>

\* C18: _format_date_for_search returns, for a text that spells a calendar date
\* in an accepted format, the form "Month DD YYYY" of that date, the same for
\* every accepted spelling of the date; every other text is returned unchanged.
C18_DateNormalised ==
    natural.some =>
        LET date == SpelledDate(meeting_date)
        IN  IF date = <<>> THEN natural.v = meeting_date
            ELSE /\ natural.v.shape = "W N N"
                 /\ natural.v.w = FullMonthName(date[2])
                 /\ Len(natural.v.n1) = 2 /\ Val(natural.v.n1) = date[3]
                 /\ Len(natural.v.n2) = 4 /\ Val(natural.v.n2) = date[1]
                 /\ ~natural.v.ws
                 /\ \A other \in SearchDates :
                       SpelledDate(other) = date =>
                           _format_date_for_search(other) = natural.v

\* C18 witness: a dash-separated text with the year last and white space around
\* it came back as "February 05 2026".
C18_Witness ==
    /\ natural.some
    /\ meeting_date = DateText("N-N-N", "", <<2>>, <<5>>, <<2, 0, 2, 6>>, TRUE)
    /\ natural.v = DateText("W N N", "February", <<0, 5>>, <<2, 0, 2, 6>>, <<>>, FALSE)

\* ---- scraper.py: has_webcast and the documents of a record ----

\* The accepted sub-entries of the document for the date of record r.
SubEntriesOf(r) ==
    {e \in Range(doc.entries) : Accepted(e) /\ IsoOf(_parse_date(e.heading)) = r.iso}

\* C19: has_webcast of a record is true exactly when the feed has an accepted
\* Webcast sub-entry for the record's date, with or without a meeting-detail
\* link in it.
C19_HasWebcast ==
    (pc = "done" /\ html.some) =>
        \A i \in 1..Len(meetings) :
            meetings[i].has_webcast <=>
                \E e \in SubEntriesOf(meetings[i]) : SubType(e.heading) = "Webcast"

\* C19 witness: of two meetings parsed, one has a Webcast sub-entry without a
\* usable link (has_webcast true, webcast_url absent) and the other has none.
C19_Witness ==
    /\ pc = "done" /\ Len(meetings) = 2
    /\ \E i, j \in 1..2 :
          /\ meetings[i].has_webcast /\ meetings[i].webcast_url = None
          /\ ~meetings[j].has_webcast

\* C20: every record the feed parser returns has agenda_url or minutes_url set.
C20_DocumentTrail ==
    \A i \in 1..Len(meetings) :
        Truthy(meetings[i].agenda_url) \/ Truthy(meetings[i].minutes_url)

\* ---- scraper.py: the entries that are passed over ----

\* The entries of the document processed so far.
Processed == IF html.some THEN SubSeq(Divs(html.v), 1, pos) ELSE <<>>

\* The heading names another body than the City Council, or a cancelled session.
OtherBodyOrCancelled(e) ==
    e.has_h2 /\ (~HeadingHas("City Council", e.heading) \/ HeadingHas("Cancelled", e.heading))

\* The heading has a token that reads as a day of the calendar.
CarriesDate(e) ==
    \E i \in 1..Len(e.heading) :
        LET tok == e.heading[i]
        IN  MonthNum(tok.w) # 0 /\ tok.d \in 1..DaysIn(MonthNum(tok.w), tok.y)
            /\ tok.y \in 1000..9999

\* C21: an entry for another body or for a cancelled session creates no record
\* and changes none: the records are at every moment those the other entries
\* processed so far give.
C21_OnlyLiveCouncilEntries ==
    /\ by_date = ParseAll(EmptyDict, SelectSeq(Processed, LAMBDA e : ~OtherBodyOrCancelled(e)))
    /\ (pc = "done" /\ html.some) => meetings = SortDesc(Values(by_date))

\* C21 witness: after an Agenda entry for a date came a Planning Commission
\* entry with a minutes link for the same date; the one record returned has no
\* minutes_url.
C21_Witness ==
    /\ pc = "done" /\ html.some /\ Len(doc.entries) >= 2
    /\ Accepted(doc.entries[1])
    /\ ~HeadingHas("City Council", doc.entries[2].heading)
    /\ \E l \in Range(doc.entries[2].links) : Contains("FileOpen", l.href)
    /\ Len(meetings) = 1
    /\ IsoOf(_parse_date(doc.entries[2].heading)) = meetings[1].iso
    /\ meetings[1].minutes_url = None

\* C22: an entry whose heading carries no parseable date creates no record and
\* changes none, and the pass goes on: the records are at every moment those the
\* dated entries processed so far give, and they are the ones returned.
C22_UndatedEntriesSkipped ==
    /\ by_date = ParseAll(EmptyDict, SelectSeq(Processed, LAMBDA e : e.has_h2 => CarriesDate(e)))
    /\ <<0, 0, 0>> \notin DOMAIN by_date
    /\ (pc = "done" /\ html.some) =>
          /\ outcome = "returned"
          /\ Len(meetings) = Cardinality(DOMAIN by_date)
          /\ Range(meetings) = {by_date[k] : k \in DOMAIN by_date}

\* C22 witness: the second of three council entries had no parseable date; the
\* records of the first and of the third were returned.
C22_Witness ==
    /\ pc = "done" /\ html.some /\ Len(doc.entries) = 3
    /\ HeadingHas("City Council", doc.entries[2].heading)
    /\ ~CarriesDate(doc.entries[2])
    /\ Accepted(doc.entries[1]) /\ Accepted(doc.entries[3])
    /\ Len(meetings) = 2

\* ---- scraper.py: the agenda document ----

\* The resolved file-download links of the accepted Agenda sub-entries of the
\* date of record r.
AgendaFileLinks(r) ==
    UNION {{l.href : l \in {x \in Range(DivLinks(e.links)) : Contains("FileOpen", x.href)}} :
              e \in {x \in SubEntriesOf(r) : SubType(x.heading) = "Agenda"}}

\* Those of them tagged with the agenda document-type code.
TaggedAgendaLinks(r) == {u \in AgendaFileLinks(r) : Contains("Type=14", u)}

\* C23: when the Agenda sub-entries of a date have a file-download link tagged
\* Type=14, agenda_url of its record is such a link; an untagged file-download
\* link is used only when they have no tagged one.
C23_TaggedAgendaPreferred ==
    (pc = "done" /\ html.some) =>
        \A i \in 1..Len(meetings) :
            LET r == meetings[i]
            IN  IF TaggedAgendaLinks(r) # {}
                THEN r.agenda_url.some /\ r.agenda_url.v \in TaggedAgendaLinks(r)
                ELSE IF AgendaFileLinks(r) # {}
                THEN r.agenda_url.some /\ r.agenda_url.v \in AgendaFileLinks(r)
                ELSE r.agenda_url = None

\* ---- scraper.py: detail_url and webcast_url ----

\* The resolved meeting-detail links of the accepted sub-entries of the given
\* sub-type for the date of record r.
DetailLinks(r, subtype) ==
    UNION {{l.href : l \in {x \in Range(DivLinks(e.links)) : Contains("Detail_Meeting", x.href)}} :
              e \in {x \in SubEntriesOf(r) : SubType(x.heading) = subtype}}

\* Where the two fields of the returned records come from.
DetailAndWebcastSources ==
    (pc = "done" /\ html.some) =>
        \A i \in 1..Len(meetings) :
            /\ meetings[i].detail_url.some =>
                  meetings[i].detail_url.v \in DetailLinks(meetings[i], "Agenda")
            /\ meetings[i].webcast_url.some =>
                  meetings[i].webcast_url.v \in DetailLinks(meetings[i], "Webcast")

\* What one iteration of the loop leaves alone.
DetailAndWebcastFrame ==
    (pc = "parse" /\ pos' = pos + 1) =>
        LET div == Divs(html.v)[pos']
            iso == IsoOf(_parse_date(div.heading))
            old == IF iso \in DOMAIN by_date THEN by_date[iso]
                   ELSE [detail_url |-> None, webcast_url |-> None, has_webcast |-> FALSE]
        IN  Accepted(div) =>
               /\ SubType(div.heading) = "Webcast" =>
                     by_date'[iso].detail_url = old.detail_url
               /\ SubType(div.heading) = "Agenda" =>
                     /\ by_date'[iso].webcast_url = old.webcast_url
                     /\ by_date'[iso].has_webcast = old.has_webcast

\* C24: detail_url is taken only from a meeting-detail link of an Agenda
\* sub-entry of the record's date and webcast_url only from one of a Webcast
\* sub-entry of that date; a Webcast entry leaves detail_url as it was and an
\* Agenda entry leaves webcast_url and has_webcast as they were.
C24_DetailAndWebcast == []DetailAndWebcastSources /\ [][DetailAndWebcastFrame]_vars

\* ---- youtube_logic.py: get_transcript terminates ----

\* The scheduler of get_transcript is the Python interpreter: a call that can
\* take a step takes one (every request has a timeout or returns or raises).
SpecTranscriptLive == InitTranscript /\ [][NextTranscript]_vars /\ WF_vars(NextTranscript)

\* The counters of the two loops stay within the constants.
TranscriptBounded ==
    /\ queries_done <= NUM_QUERIES
    /\ Len(responses) = queries_done
    /\ Len(candidates) <= MAX_CANDIDATES
    /\ \A i, j \in 1..Len(candidates) : candidates[i] = candidates[j] => i = j
    /\ cand <= Len(candidates)
    /\ tpc = "done" => (transcript = None \/ (transcript.some /\ Acceptable(transcript.v)))

\* A step of the candidate loop tries the candidate after the last one tried
\* and never goes back; a step of the search loop issues one request.
TranscriptAdvances ==
    /\ tpc = "loop" => (cand' = cand + 1 /\ video_id' = candidates[cand'] /\ candidates' = candidates)
    /\ tpc = "search" => (queries_done' = queries_done + 1 /\ cand' = cand)
    /\ tpc = "import" => (cand' = cand /\ queries_done' = queries_done)

\* C25: get_transcript terminates: at most NUM_QUERIES search requests are
\* issued, the candidates are distinct and at most MAX_CANDIDATES, each step of
\* the loop fetches the next candidate (none is fetched twice), and the call
\* eventually returns a transcript or None.
C25_TranscriptTerminates ==
    /\ []TranscriptBounded
    /\ [][TranscriptAdvances]_vars
    /\ <>(tpc = "done")

\* All three searches were needed to fill the candidate list and every one of
\* the MAX_CANDIDATES candidates was tried once without success.
C25_Witness ==
    /\ tpc = "done"
    /\ queries_done = NUM_QUERIES
    /\ cand = MAX_CANDIDATES
    /\ transcript = None

\* ---- scraper.py: the fields of a record during one pass ----

\* The fields of record new are those of record old or fuller.
Fuller(old, new) ==
    /\ old.detail_url.some => new.detail_url.some
    /\ old.agenda_url.some => new.agenda_url.some
    /\ old.minutes_url.some => new.minutes_url.some
    /\ old.webcast_url.some => new.webcast_url.some
    /\ old.has_webcast => new.has_webcast

\* One step of the pass keeps every record and empties none of its fields.
RecordsGrow ==
    \A k \in DOMAIN by_date : k \in DOMAIN by_date' /\ Fuller(by_date[k], by_date'[k])

\* A record with a webcast link is flagged as having a webcast.
WebcastUrlFlagged ==
    \A k \in DOMAIN by_date : by_date[k].webcast_url.some => by_date[k].has_webcast

\* C26: during one parse pass a URL field of a record that is set stays set,
\* has_webcast stays true once true, and after every prefix of the entries a
\* record with webcast_url set has has_webcast true.
C26_FieldsMonotonic == []WebcastUrlFlagged /\ [][RecordsGrow]_vars

\* The entry processed last is a Webcast entry without a meeting-detail link for
\* a date whose record already had its webcast link.
C26_Witness ==
    /\ pc = "parse"
    /\ pos >= 2
    /\ LET div == Divs(html.v)[pos]
           iso == IsoOf(_parse_date(div.heading))
       IN  /\ Accepted(div)
           /\ SubType(div.heading) = "Webcast"
           /\ ~FirstDetail(DivLinks(div.links)).some
           /\ by_date[iso].webcast_url.some
           /\ by_date[iso].has_webcast

\* ---- scraper.py: whose links a record holds ----

\* The resolved links of the entries whose own heading carries the date of r.
OwnLinks(r) ==
    UNION {{l.href : l \in Range(DivLinks(e.links))} : e \in SubEntriesOf(r)}

\* The URLs record r holds.
HeldUrls(r) ==
    {u.v : u \in {x \in {r.detail_url, r.agenda_url, r.minutes_url, r.webcast_url} : x.some}}

\* C27: every URL of a returned record is a link of a feed entry whose own
\* heading carries the record's date, also when the entry blocks are nested in
\* an enclosing block.
C27_LinksOfOwnEntries ==
    (pc = "done" /\ html.some) =>
        \A i \in 1..Len(meetings) : HeldUrls(meetings[i]) \subseteq OwnLinks(meetings[i])

\* ---- app.py: what run_analysis records ----

\* The text is one of the messages _call_llm returns for a failed backend call.
IsErrorMessage(text) ==
    \E t \in AppErrorTexts, b \in SUPPORTED_BACKENDS : text = call_llm_except(t, LabelOf(b))

\* The store, the in-memory archive and the current report stay as they are.
NothingRecorded == UNCHANGED <<store_rows, mem_archive, current>>

\* C30: run_analysis inserts a row and adds an archive entry only for a report
\* that was generated: when generate_summary yields a classified error message,
\* when no transcript is found and when the engine cannot be constructed, the
\* store, the archive and the current report are left unchanged.
C30_OnlyGeneratedReportsRecorded ==
    [][/\ (apc = "save" /\ a_summary.some /\ IsErrorMessage(a_summary.v)) => NothingRecorded
       /\ (a_result' \in {"no_transcript", "engine_failed"}) => NothingRecorded]_vars

\* ---- app.py: the in-memory archive and load_archive ----

\* The entry is a report of the in-memory archive (its id is "mem_...").
IsMemReport(r) == "id" \in DOMAIN r

\* No two entries of the list are of the same meeting_date.
OnePerDate(reports) ==
    \A i, j \in 1..Len(reports) : reports[i].meeting_date = reports[j].meeting_date => i = j

\* The list load_archive returned has no in-memory report next to a store row
\* of its date.
NoMemBesideRow ==
    \A i, j \in 1..Len(archived_all) :
        (IsMemReport(archived_all[i]) /\ ~IsMemReport(archived_all[j])) =>
            archived_all[i].meeting_date # archived_all[j].meeting_date

\* The run_analysis that completes puts its report first.
NewestFirst ==
    apc = "save" =>
        /\ mem_archive' # <<>>
        /\ mem_archive'[1] = MemReport(a_meeting, a_summary, a_backend)

\* C28: the in-memory archive holds at most one report per meeting_date, the
\* report of the run_analysis that completed last being first, and load_archive
\* never returns an in-memory report together with a store row of the same
\* meeting_date.
C28_ArchiveOnePerDate ==
    /\ [](OnePerDate(mem_archive) /\ NoMemBesideRow)
    /\ [][NewestFirst]_vars

\* One date was analysed and saved twice, with two backends: the archive has
\* the second report only, and load_archive returned the two store rows without
\* it.
C28_Witness ==
    /\ Len(store_rows) = 2
    /\ store_rows[1].meeting_date = store_rows[2].meeting_date
    /\ store_rows[1].backend_used # store_rows[2].backend_used
    /\ Len(mem_archive) = 1
    /\ mem_archive[1].meeting_date = store_rows[2].meeting_date
    /\ mem_archive[1].backend_used = store_rows[2].backend_used
    /\ Len(archived_all) = 2
    /\ \A i \in 1..2 : ~IsMemReport(archived_all[i])

\* ---- app.py: a change of backend ----

\* The radio is set to another backend.
Selecting == apc = "idle" /\ backend_choice' # backend_choice

\* run_analysis starts for the meeting that is loaded, with the backend selected.
ReanalysisStarts ==
    /\ current.some
    /\ runs' = runs + 1
    /\ apc' = "transcript"
    /\ caller' = "run_analysis"
    /\ a_meeting' = current.v.meeting
    /\ a_backend' = backend_choice

\* What the steps do with the flag.
PendingSteps ==
    /\ (Selecting /\ current.some) =>
          /\ pending'
          /\ current' = Some([current.v EXCEPT !.summary = None])
          /\ runs' = runs
    /\ (Selecting /\ ~current.some) =>
          /\ ~pending'
          /\ current' = current
          /\ runs' = runs
    /\ (~pending /\ pending') => (Selecting /\ current.some)
    /\ (pending /\ ~pending') => ReanalysisStarts
    /\ (pending /\ pending') => (runs' = runs /\ apc' = "idle")

\* While the flag is set no call runs, a meeting is loaded and no summary is
\* displayed.
PendingState ==
    pending => (apc = "idle" /\ click = NoClick /\ current.some /\ ~current.v.summary.some)

\* C29: selecting another backend while a meeting is loaded clears the
\* displayed summary and sets the flag; the next run of the script reads the
\* flag, resets it and starts run_analysis for that meeting with the selected
\* backend, so that it runs once; without a loaded meeting, or without a change
\* of backend, the flag is not set, no analysis starts and the summary stays.
C29_ReanalysisOnce == []PendingState /\ [][PendingSteps]_vars

\* The script run that a press of View started has read the flag and its
\* pending block is running the analysis of the loaded meeting with the backend
\* selected after the report was made.
C29_Witness ==
    /\ apc = "transcript"
    /\ click.kind = "view"
    /\ ~pending
    /\ current.some
    /\ ~current.v.summary.some
    /\ current.v.backend = "gemini"
    /\ a_backend = "groq_llama"
    /\ a_meeting = current.v.meeting

====
